---------------------------- MODULE Spec2Model ----------------------------
(***************************************************************************)
(* A model of the analytic performance-model evaluator: the DMA transfer   *)
(* ledger and memory-mapped registers of pcie_interface.py, the workload   *)
(* partition table of fpga_integration.py, the link budget and PAM4        *)
(* encoder of tfln_components.py and the Mach-Zehnder mesh of              *)
(* photonic_core.py.                                                       *)
(*                                                                         *)
(* Each component has its own variables and its own specification; a       *)
(* component's specification holds the other components' variables at      *)
(* their idle values.  SpecSys runs the stateful objects side by side.     *)
(***************************************************************************)
EXTENDS Integers, Sequences, FiniteSets, TLC

VARIABLES
    op,                       \* name of the operation the last step performed
    outcome,                  \* "ok", or the exception the operation raised
    \* ---- DMAEngine (pcie_interface.py) ----
    channel_status,           \* self.channel_status    : channel -> 'idle' | 'busy'
    transfer_queue,           \* self.transfer_queue    : channel -> list of transfers
    total_bytes_transferred,  \* self.total_bytes_transferred
    total_transfers,          \* self.total_transfers
    dma_channel,              \* the channel argument of the last initiate_transfer
    enqueued,                 \* history: per queue, every transfer appended so far
    dequeued,                 \* history: per queue, every transfer popped so far
    accepted,                 \* history: number of initiate_transfer calls that returned
    drain_from,               \* history: per queue, its length after the last accepted
                              \* initiate_transfer
    drain_calls,              \* history: process_transfers calls since then that found
                              \* a transfer in some queue
    threads,                  \* per concurrent caller of transfer_matrix_to_device: the
                              \* statement it is at and its local variables
    \* ---- MemoryMappedIO (pcie_interface.py) ----
    register_values,          \* self.register_values   : register name -> value
    mmio_result,              \* what the last call on the registers returned or raised
    mmio_args,                \* the arguments of the last call on the registers
    call_writes,              \* history: the write_register calls the last call made,
                              \* in order, as <<name, value>>
    last_write,               \* history: register name -> the value of the most recent
                              \* write_register(name, value) that returned
    \* ---- HybridFPGAPhotonic.partition_workload (fpga_integration.py) ----
    pw_task,                  \* argument task_type of the last call
    pw_size,                  \* argument size of the last call: <<"int", n>> or <<"none", 0>>
    pw_result,                \* the dict returned, fractions in tenths
    \* ---- TFLNPhotonicLink.link_budget (tfln_components.py) ----
    link_reach,               \* self.reach of the link, in metres
    link_result,              \* the dict returned, in thousandths of a dB
    \* ---- TFLNMachZehnderModulator.encode_pam4 (tfln_components.py) ----
    pam_vpi,                  \* v_pi of the modulator
    pam_bits,                 \* argument bits of the last call
    pam_out,                  \* the array returned, each voltage times three
    \* ---- PhotonicMatrixMultiplier (photonic_core.py) ----
    mm_size,                  \* self.size
    mm_num_mzi,               \* self.num_mzi
    mm_theta,                 \* self.theta, in quarter turns (units of pi/2)
    mm_phi,                   \* self.phi, in quarter turns
    mm_vector,                \* argument vector of the last multiply
    mm_out,                   \* what the last multiply returned or raised
    mm_stages,                \* history: the stages the last multiply applied
    mm_arrays,                \* after a multiply: the arrays by identity, and the
                              \* identity of the one returned
    \* ---- methods that compute a value from the fields of their object ----
    \* (PCIeConfiguration, LargeScaleComputeCluster, HybridFPGAPhotonic,
    \*  TFLNMaterialProperties, TFLNMachZehnderModulator, TFLNRingModulator)
    call_self,                \* the fields of the object of the last such call
    call_args,                \* the arguments of that call
    call_result,              \* what it returned
    call_before,              \* history: the call before it, when it is the second
                              \* of two calls that a caller compares
    \* ---- upload_file (github_uploader.py) ----
    up_call,                  \* the call of upload_file: where it is, its file, its
                              \* local sha and what it returned or raised
    up_log                    \* history: the requests the call sent and the answers
                              \* to them, in order

dmaVars == <<channel_status, transfer_queue, total_bytes_transferred,
             total_transfers, dma_channel, enqueued, dequeued, accepted,
             drain_from, drain_calls, threads>>

dmaObject == <<channel_status, transfer_queue, total_bytes_transferred,
               total_transfers>>

mmioVars == <<register_values, mmio_result, mmio_args, call_writes, last_write>>

pwVars == <<pw_task, pw_size, pw_result>>

linkVars == <<link_reach, link_result>>

pamVars == <<pam_vpi, pam_bits, pam_out>>

mmObject == <<mm_size, mm_num_mzi, mm_theta, mm_phi>>

mmVars == <<mmObject, mm_vector, mm_out, mm_stages, mm_arrays>>

callVars == <<call_self, call_args, call_result, call_before>>

upVars == <<up_call, up_log>>

vars == <<op, outcome, dmaVars, mmioVars, pwVars, linkVars, pamVars, mmVars,
          callVars, upVars>>

(***************************************************************************)
(* Bounds of the model.                                                    *)
(***************************************************************************)
NumChannels     == 2   \* DMAEngine(num_channels = NumChannels)
MaxTransferSize == 2   \* transfer sizes are drawn from 1..MaxTransferSize
MaxInitiated    == 3   \* at most this many initiate_transfer calls are accepted
SizeSpan        == 8   \* partition_workload sizes lie within SizeSpan of the threshold
ReachSpan       == 60  \* link reaches lie within 5*ReachSpan metres of the 3 dB point
MaxBits         == 5   \* encode_pam4 is given at most MaxBits bits
MaxVpi          == 2   \* v_pi is drawn from 1..MaxVpi
MaxMeshSize     == 4   \* PhotonicMatrixMultiplier(size) for size in 0..MaxMeshSize
SysMaxInitiated == 1   \* transfers accepted while the objects run side by side
MaxLengthSteps  == 3   \* interaction lengths 5, 10, .. 5*MaxLengthSteps mm
MaxDecades      == 4   \* phase imbalances down to 10^-MaxDecades
NumThreads      == 2   \* concurrent callers of transfer_matrix_to_device
MaxRegisterValue == 2  \* values written to a register: 1 .. MaxRegisterValue
MaxPowerSteps   == 3   \* laser powers: -50, 0, ..., 50 * MaxPowerSteps mW
MaxLanes        == 32  \* PCIeConfiguration(num_lanes) for num_lanes in 1..MaxLanes
MaxNodes        == 64  \* LargeScaleComputeCluster(num_nodes) for num_nodes in 1..MaxNodes
MaxFiles        == 2   \* upload_file is called for files 1 .. MaxFiles
MaxSizeSteps    == 100 \* execute_matrix_multiply sizes 0, 16, .. 16*MaxSizeSteps

(***************************************************************************)
(* Program constants.                                                      *)
(***************************************************************************)
HostAddr   == 268435456   \* 0x10000000
DeviceAddr == 536870912   \* 0x20000000

SizeThreshold == 512      \* matmul sizes from here on go to the photonic unit

\* Link budget, in thousandths of a dB (dBm).
LaserPower       == 3000     \* laser_power = 3.0
RxSensitivity    == -15000   \* rx_sensitivity = -15.0
MarginFloor      == 3000     \* margin > 3.0
FiberLossPerKm   == 200      \* 0.2 dB/km
LossTE           == 270      \* loss_te = 0.27 dB/cm
SplitLoss        == 100      \* split_loss = 0.1
CouplingLoss     == 500      \* coupling_loss = 0.5
LinkInteractionLength == 15  \* the link's modulator: interaction_length = 15.0 mm

(***************************************************************************)
(* Results of calls                                                        *)
(***************************************************************************)
NoResult == [none |-> TRUE]          \* no call has been made yet

Raise(exception) == [raises |-> exception]

Raised(r) == "raises" \in DOMAIN r

OutcomeOf(r) == IF Raised(r) THEN r.raises ELSE "ok"

(***************************************************************************)
(* Numbers.  A Python int that may exceed the integers of the model        *)
(* checker is held as its digits in base LimbBase, least significant       *)
(* first, with no leading zero digit (zero is the empty sequence).  A      *)
(* Python float is an IEEE-754 binary64 value s * m * 2^e with a mantissa  *)
(* 2^52 <= m < 2^53, and every operation rounds to nearest, ties to even,  *)
(* as the hardware does.  Overflow to infinity and subnormals do not       *)
(* occur at the magnitudes of this program and are not modelled; a         *)
(* division by zero gives an infinity, as numpy's float64 does.            *)
(***************************************************************************)
\* Digits of 15 bits: the product of two digits and a carry fits 32 bits.
\* An operator that uses an argument more than once first binds it, as the
\* one element of a set, so that the argument is evaluated once.
LimbBase == 2 ^ 15

Limb(a, i) == IF i >= 1 /\ i <= Len(a) THEN a[i] ELSE 0

Longer(a, b) == IF Len(a) >= Len(b) THEN Len(a) ELSE Len(b)

Zeros(n) == [i \in 1 .. n |-> 0]

Sgn(i) == IF i > 0 THEN 1 ELSE IF i < 0 THEN -1 ELSE 0

Abs(i) == IF i < 0 THEN 0 - i ELSE i

RECURSIVE BNormLoop(_, _)
BNormLoop(a, n) ==
    IF n = 0 THEN <<>>
    ELSE IF a[n] = 0 THEN BNormLoop(a, n - 1) ELSE SubSeq(a, 1, n)

\* a without its leading zero digits
BNorm(a) == CHOOSE out \in {BNormLoop(x, Len(x)) : x \in {a}} : TRUE

\* The natural number n < 2^31.
BFromInt(n) ==
    BNorm(<<n % LimbBase, (n \div LimbBase) % LimbBase, n \div (LimbBase * LimbBase)>>)

RECURSIVE BAddLoop(_, _, _, _, _)
BAddLoop(a, b, i, carry, acc) ==
    IF i > Longer(a, b)
    THEN (IF carry = 0 THEN acc ELSE Append(acc, carry))
    ELSE CHOOSE out \in
             {BAddLoop(a, b, i + 1, s \div LimbBase, Append(acc, s % LimbBase)) :
                  s \in {Limb(a, i) + Limb(b, i) + carry}} : TRUE

BAdd(a, b) == CHOOSE out \in {BAddLoop(x, y, 1, 0, <<>>) : x \in {a}, y \in {b}} : TRUE

RECURSIVE BSubLoop(_, _, _, _, _)
BSubLoop(a, b, i, borrow, acc) ==
    IF i > Len(a) THEN BNorm(acc)
    ELSE CHOOSE out \in
             {IF s < 0
              THEN BSubLoop(a, b, i + 1, 1, Append(acc, s + LimbBase))
              ELSE BSubLoop(a, b, i + 1, 0, Append(acc, s)) :
                  s \in {Limb(a, i) - Limb(b, i) - borrow}} : TRUE

\* a - b, for a >= b
BSub(a, b) == CHOOSE out \in {BSubLoop(x, y, 1, 0, <<>>) : x \in {a}, y \in {b}} : TRUE

RECURSIVE BCmpFrom(_, _, _)
BCmpFrom(a, b, i) ==
    IF i = 0 THEN 0
    ELSE IF a[i] < b[i] THEN -1
    ELSE IF a[i] > b[i] THEN 1
    ELSE BCmpFrom(a, b, i - 1)

\* -1, 0 or 1 as a < b, a = b or a > b
BCmp(a, b) ==
    CHOOSE out \in
        {IF Len(x) < Len(y) THEN -1
         ELSE IF Len(x) > Len(y) THEN 1
         ELSE BCmpFrom(x, y, Len(x)) : x \in {a}, y \in {b}} : TRUE

RECURSIVE BMulSmallLoop(_, _, _, _, _)
BMulSmallLoop(a, k, i, carry, acc) ==
    IF i > Len(a) THEN (IF carry = 0 THEN acc ELSE Append(acc, carry))
    ELSE CHOOSE out \in
             {BMulSmallLoop(a, k, i + 1, s \div LimbBase, Append(acc, s % LimbBase)) :
                  s \in {a[i] * k + carry}} : TRUE

\* a * k, for 0 <= k <= LimbBase
BMulSmall(a, k) ==
    CHOOSE out \in
        {IF d = 0 THEN <<>> ELSE BMulSmallLoop(x, d, 1, 0, <<>>) :
            x \in {a}, d \in {k}} : TRUE

RECURSIVE BMulLoop(_, _, _, _)
BMulLoop(a, b, j, acc) ==
    IF j > Len(b) THEN acc
    ELSE CHOOSE out \in
             {BMulLoop(a, b, j + 1, s) :
                  s \in {BAdd(acc, IF b[j] = 0 THEN <<>>
                                   ELSE Zeros(j - 1) \o BMulSmall(a, b[j]))}} : TRUE

BMul(a, b) ==
    CHOOSE out \in
        {IF x = <<>> \/ y = <<>> THEN <<>> ELSE BMulLoop(x, y, 1, <<>>) :
            x \in {a}, y \in {b}} : TRUE

RECURSIVE BPow10(_)
BPow10(k) == IF k = 0 THEN <<1>> ELSE BMulSmall(BPow10(k - 1), 10)

RECURSIVE BitLenSmall(_)
BitLenSmall(n) == IF n = 0 THEN 0 ELSE 1 + BitLenSmall(n \div 2)

\* The number of binary digits of a.
BBitLen(a) ==
    CHOOSE out \in
        {IF x = <<>> THEN 0 ELSE (Len(x) - 1) * 15 + BitLenSmall(x[Len(x)]) :
            x \in {a}} : TRUE

\* a * 2^k
BShl(a, k) ==
    CHOOSE out \in
        {IF x = <<>> THEN <<>> ELSE Zeros(n \div 15) \o BMulSmall(x, 2 ^ (n % 15)) :
            x \in {a}, n \in {k}} : TRUE

\* floor(a / 2^k)
BShr(a, k) ==
    CHOOSE out \in
        {IF n \div 15 >= Len(x) THEN <<>>
         ELSE BNorm([i \in 1 .. (Len(x) - n \div 15) |->
                        (x[i + n \div 15] \div (2 ^ (n % 15)))
                            + (Limb(x, i + n \div 15 + 1) % (2 ^ (n % 15)))
                                  * (2 ^ (15 - (n % 15)))]) :
            x \in {a}, n \in {k}} : TRUE

\* a mod 2^k # 0
BLowNonZero(a, k) ==
    \E x \in {a}, n \in {k} :
        \/ \E i \in 1 .. Len(x) : i <= n \div 15 /\ x[i] # 0
        \/ Limb(x, (n \div 15) + 1) % (2 ^ (n % 15)) # 0

\* Binary digit i of a, digit 0 the least significant.
BBit(a, i) == (Limb(a, (i \div 15) + 1) \div (2 ^ (i % 15))) % 2

\* One step of the long division by b, whose leading digit is at least
\* LimbBase/2: the next digit of the quotient and the remainder left, from
\* the remainder r so far with the next digit of the dividend brought down.
\* The trial digit from the two leading digits of r is at most two too large.
BDivDigit(b, r) ==
    CHOOSE out \in
        {CHOOSE step \in
             {<<digit, BSub(r, BMulSmall(b, digit))>> :
                 digit \in {d \in {trial - 2, trial - 1, trial} \cap (0 .. LimbBase - 1) :
                               /\ BCmp(BMulSmall(b, d), r) <= 0
                               /\ BCmp(BMulSmall(b, d + 1), r) > 0}} : TRUE :
            trial \in {IF (Limb(r, Len(b) + 1) * LimbBase + Limb(r, Len(b))) \div b[Len(b)]
                              >= LimbBase
                       THEN LimbBase - 1
                       ELSE (Limb(r, Len(b) + 1) * LimbBase + Limb(r, Len(b)))
                                \div b[Len(b)]}} : TRUE

\* The digits of a from digit i down, q the quotient and r the remainder of
\* the digits above.
RECURSIVE BDivLoop(_, _, _, _, _)
BDivLoop(a, b, i, q, r) ==
    IF i = 0 THEN <<BNorm(q), r>>
    ELSE CHOOSE out \in
             {BDivLoop(a, b, i - 1, <<step[1]>> \o q, step[2]) :
                  step \in {BDivDigit(b, BNorm(<<a[i]>> \o r))}} : TRUE

\* <<floor(a / b), a mod b>>, for b # 0
BDivMod(a, b) ==
    CHOOSE out \in
        {CHOOSE res \in
             {<<qr[1], BShr(qr[2], shift)>> :
                 qr \in {BDivLoop(BShl(a, shift), BShl(b, shift),
                                  Len(BShl(a, shift)), <<>>, <<>>)}} : TRUE :
            shift \in {15 - BitLenSmall(b[Len(b)])}} : TRUE

\* floor(sqrt(n)) by Newton's iteration from an estimate r >= sqrt(n)
RECURSIVE BSqrtLoop(_, _)
BSqrtLoop(n, r) ==
    CHOOSE out \in
        {IF BCmp(next, r) >= 0 THEN r ELSE BSqrtLoop(n, next) :
            next \in {BShr(BAdd(r, BDivMod(n, r)[1]), 1)}} : TRUE

BSqrt(n) ==
    CHOOSE out \in
        {IF x = <<>> THEN <<>>
         ELSE BSqrtLoop(x, BShl(<<1>>, (BBitLen(x) + 1) \div 2)) : x \in {n}} : TRUE

\* ---- binary64 ----
FZero == [s |-> 0, m |-> <<>>, e |-> 0]

\* +inf and -inf
FInf(sign) == [s |-> sign, m |-> <<>>, e |-> 0]

IsInf(x) == x.s # 0 /\ x.m = <<>>

\* A mantissa that rounding has carried to 2^53 is halved.
FCarry(sign, m, e) ==
    IF BBitLen(m) = 54 THEN [s |-> sign, m |-> BShr(m, 1), e |-> e + 1]
    ELSE [s |-> sign, m |-> m, e |-> e]

\* The float nearest to sign * num * 2^e, ties to even, for a num # 0 of
\* 53 + drop binary digits; inexact says that the exact value is above
\* num * 2^e by less than 2^e.
FRoundBits(sign, num, e, inexact, drop) ==
    IF drop <= 0 THEN [s |-> sign, m |-> BShl(num, 0 - drop), e |-> e + drop]
    ELSE CHOOSE out \in
             {FCarry(sign,
                     IF /\ BBit(num, drop - 1) = 1
                        /\ \/ inexact
                           \/ BLowNonZero(num, drop - 1)
                           \/ kept[1] % 2 = 1
                     THEN BAdd(kept, <<1>>) ELSE kept,
                     e + drop) :
                 kept \in {BShr(num, drop)}} : TRUE

FRound(sign, num, e, inexact) ==
    CHOOSE out \in
        {IF n = <<>> \/ sg = 0 THEN FZero
         ELSE CHOOSE f \in {FRoundBits(sg, n, e, inexact, drop) :
                               drop \in {BBitLen(n) - 53}} : TRUE :
            n \in {num}, sg \in {sign}} : TRUE

\* The float nearest to sign * (num / den) * 2^e.
FRatio(sign, num, den, e) ==
    CHOOSE out \in
        {IF n = <<>> \/ sign = 0 THEN FZero
         ELSE CHOOSE f \in
                  {CHOOSE g \in {FRound(sign, qr[1], e - up, qr[2] # <<>>) :
                                    qr \in {BDivMod(BShl(n, up), d)}} : TRUE :
                      up \in {IF 56 + BBitLen(d) - BBitLen(n) > 0
                              THEN 56 + BBitLen(d) - BBitLen(n) ELSE 0}} : TRUE :
            n \in {num}, d \in {den}} : TRUE

\* float(i) and float of a decimal literal i / 10^k, for an int |i| < 2^31
FInt(i) == FRound(Sgn(i), BFromInt(Abs(i)), 0, FALSE)

FDec(i, k) == FRatio(Sgn(i), BFromInt(Abs(i)), BPow10(k), 0)

\* The float of a decimal literal of up to sixteen digits: (hi * 10^7 + lo) / 10^k
FLit(hi, lo, k) ==
    FRatio(1, BAdd(BMul(BFromInt(hi), BPow10(7)), BFromInt(lo)), BPow10(k), 0)

\* float(n) of a natural number held in digits
FBig(n) == FRound(1, n, 0, FALSE)

FNeg(x) == CHOOSE out \in {[a EXCEPT !.s = 0 - a.s] : a \in {x}} : TRUE

FAbs(x) == CHOOSE out \in {[a EXCEPT !.s = Abs(a.s)] : a \in {x}} : TRUE

FMul(x, y) ==
    CHOOSE out \in
        {IF IsInf(a) \/ IsInf(b) THEN FInf(a.s * b.s)
         ELSE FRound(a.s * b.s, BMul(a.m, b.m), a.e + b.e, FALSE) :
            a \in {x}, b \in {y}} : TRUE

FDiv(x, y) ==
    CHOOSE out \in
        {IF IsInf(a) THEN FInf(a.s * (IF b.s < 0 THEN -1 ELSE 1))
         ELSE IF IsInf(b) THEN FZero
         ELSE IF b.s = 0 THEN FInf(a.s)
         ELSE FRatio(a.s * b.s, a.m, b.m, a.e - b.e) :
            a \in {x}, b \in {y}} : TRUE

\* |x| + |y| or |x| - |y| for finite non-zero x, y with |x| >= |y|, signed
\* as x.  A y below a quarter of the last place of x leaves x as it is.
FAddMagnitudes(x, y, same) ==
    IF x.e - y.e > 60 THEN x
    ELSE IF same THEN FRound(x.s, BAdd(BShl(x.m, x.e - y.e), y.m), y.e, FALSE)
    ELSE FRound(x.s, BSub(BShl(x.m, x.e - y.e), y.m), y.e, FALSE)

\* -1, 0 or 1 as |x| < |y|, |x| = |y| or |x| > |y|, for finite non-zero x, y
FCmpMagnitudes(x, y) ==
    IF x.e # y.e THEN (IF x.e > y.e THEN 1 ELSE -1) ELSE BCmp(x.m, y.m)

FAdd(x, y) ==
    CHOOSE out \in
        {IF IsInf(a) THEN a
         ELSE IF IsInf(b) THEN b
         ELSE IF a.s = 0 THEN b
         ELSE IF b.s = 0 THEN a
         ELSE IF FCmpMagnitudes(a, b) >= 0 THEN FAddMagnitudes(a, b, a.s = b.s)
         ELSE FAddMagnitudes(b, a, a.s = b.s) :
            a \in {x}, b \in {y}} : TRUE

FSub(x, y) == FAdd(x, FNeg(y))

\* sqrt of a float x >= 0, correctly rounded
FSqrt(x) ==
    CHOOSE out \in
        {IF a.s = 0 THEN FZero
         ELSE CHOOSE f \in
                  {FRound(1, root, (IF a.e % 2 = 1 THEN a.e - 57 ELSE a.e - 56) \div 2,
                          BMul(root, root) # BShl(a.m, IF a.e % 2 = 1 THEN 57 ELSE 56)) :
                      root \in {BSqrt(BShl(a.m, IF a.e % 2 = 1 THEN 57 ELSE 56))}} : TRUE :
            a \in {x}} : TRUE

\* x ** 3, correctly rounded
FCube(x) ==
    CHOOSE out \in
        {IF IsInf(a) THEN a
         ELSE FRound(a.s, BMul(a.m, BMul(a.m, a.m)), 3 * a.e, FALSE) :
            a \in {x}} : TRUE

\* -1, 0 or 1 as x < y, x = y or x > y
FCmp(x, y) ==
    CHOOSE out \in
        {IF a.s # b.s THEN (IF a.s > b.s THEN 1 ELSE -1)
         ELSE IF a.s = 0 THEN 0
         ELSE IF IsInf(a) \/ IsInf(b)
              THEN (IF IsInf(a) /\ IsInf(b) THEN 0
                    ELSE IF IsInf(a) THEN a.s ELSE 0 - a.s)
         ELSE a.s * FCmpMagnitudes(a, b) :
            a \in {x}, b \in {y}} : TRUE

FLess(x, y) == FCmp(x, y) < 0

\* Python's min(x, y): y when y < x, else x.
PyMin(x, y) ==
    CHOOSE out \in {IF FLess(b, a) THEN b ELSE a : a \in {x}, b \in {y}} : TRUE

\* The int below 2^31 held in the digits a.
BToInt(a) == Limb(a, 1) + Limb(a, 2) * LimbBase + Limb(a, 3) * LimbBase * LimbBase

\* int(x) of a float |x| < 2^31: the fraction is cut off.
FTruncInt(x) ==
    CHOOSE out \in
        {a.s * BToInt(IF a.e >= 0 THEN BShl(a.m, a.e) ELSE BShr(a.m, 0 - a.e)) :
            a \in {x}} : TRUE

\* 2^x.e, the unit in the last place of a float x # 0
UlpOf(x) == [s |-> 1, m |-> BShl(<<1>>, 52), e |-> x.e - 52]

\* |x - y| <= k units in the last place of x
WithinUlps(x, y, k) == ~FLess(FMul(FInt(k), UlpOf(x)), FAbs(FSub(x, y)))

\* |x - num / den| <= k units in the last place of x, for a float x > 0 with
\* x.e <= 0 and naturals num, den below 2^15, k * den below 2^31
WithinUlpsOfRatio(x, num, den, k) ==
    \E a \in {BMulSmall(x.m, den)}, b \in {BShl(num, 0 - x.e)} :
        BCmp(IF BCmp(a, b) >= 0 THEN BSub(a, b) ELSE BSub(b, a),
             BFromInt(k * den)) <= 0

(***************************************************************************)
(* DMAEngine                                                               *)
(***************************************************************************)
ChannelIds == 0 .. (NumChannels - 1)

\* Channel arguments tried by callers: every valid id, every negative id that
\* Python's list indexing accepts, and one value beyond each end.
ChannelArgs == (0 - NumChannels - 1) .. NumChannels

TransferSizes == 1 .. MaxTransferSize
Directions    == {"h2d", "d2h"}

\* The <<size, direction>> of the transfers callers start: host-to-device
\* transfers of every size and a device-to-host transfer of the smallest.
TransferArgs ==
    {<<size, "h2d">> : size \in TransferSizes}
        \cup {<<1, direction>> : direction \in Directions}

\* The dict built by initiate_transfer.
Transfer(source_addr, dest_addr, size, direction) ==
    [source |-> source_addr, dest |-> dest_addr, size |-> size,
     direction |-> direction, status |-> "pending"]

\* list[channel] for a Python list of length n: a negative index counts from
\* the end; -1 here stands for IndexError.
PyListIndex(channel, n) ==
    IF channel >= 0 /\ channel < n THEN channel
    ELSE IF channel < 0 /\ channel + n >= 0 THEN channel + n
    ELSE -1

\* A list.insert(0, x) where the code appends.
ListInsertFront(list, x) == <<x>> \o list

\* list.append
ListAppend(list, x) == Append(list, x)

\* A read of list[0] that leaves the element in the list.
ListPeek0(list) == <<Head(list), list>>

\* list.pop(0): the pair <<popped element, remaining list>>
ListPop0(list) == <<Head(list), Tail(list)>>

\* What initiate_transfer does: "ValueError", "IndexError" or "ok".
InitiateOutcome(channel) ==
    IF channel >= NumChannels THEN "ValueError"
    ELSE IF PyListIndex(channel, NumChannels) = -1 THEN "IndexError"
    ELSE "ok"

\* The callers that share one board, and a caller that has not yet called.
Threads == 1 .. NumThreads

ThreadStart == [pc |-> "call", ch |-> 0, transfer |-> NoResult, read |-> 0]

DMAInit ==
    /\ channel_status = [ch \in ChannelIds |-> "idle"]
    /\ transfer_queue = [ch \in ChannelIds |-> <<>>]
    /\ total_bytes_transferred = 0
    /\ total_transfers = 0
    /\ dma_channel = 0
    /\ enqueued = [ch \in ChannelIds |-> <<>>]
    /\ dequeued = [ch \in ChannelIds |-> <<>>]
    /\ accepted = 0
    /\ drain_from = [ch \in ChannelIds |-> 0]
    /\ drain_calls = 0
    /\ threads = [t \in Threads |-> ThreadStart]

initiate_transfer(channel, source_addr, dest_addr, size, direction) ==
    LET transfer == Transfer(source_addr, dest_addr, size, direction)
        idx      == PyListIndex(channel, NumChannels)
    IN  /\ op' = "initiate_transfer"
        /\ dma_channel' = channel
        /\ outcome' = InitiateOutcome(channel)
        /\ IF InitiateOutcome(channel) = "ok"
           THEN /\ accepted < MaxInitiated
                /\ transfer_queue' =
                       [transfer_queue EXCEPT ![idx] = ListAppend(@, transfer)]
                /\ channel_status' = [channel_status EXCEPT ![idx] = "busy"]
                /\ enqueued' = [enqueued EXCEPT ![idx] = Append(@, transfer)]
                /\ accepted' = accepted + 1
                /\ drain_from' = [ch \in ChannelIds |-> Len(transfer_queue'[ch])]
                /\ drain_calls' = 0
                /\ UNCHANGED <<total_bytes_transferred, total_transfers, dequeued>>
           ELSE UNCHANGED <<channel_status, transfer_queue,
                            total_bytes_transferred, total_transfers,
                            enqueued, dequeued, accepted, drain_from, drain_calls>>
        /\ UNCHANGED threads

\* The engine's fields as one record, threaded through process_transfers' loop.
Engine ==
    [status |-> channel_status, queue |-> transfer_queue,
     bytes |-> total_bytes_transferred, transfers |-> total_transfers,
     popped |-> dequeued]

\* The iteration without the reset to 'idle' when the queue runs empty.
ProcessChannelStaysBusy(e, ch) ==
    IF e.queue[ch] # <<>>
    THEN LET p        == ListPop0(e.queue[ch])
             transfer == p[1]
             rest     == p[2]
         IN  [status    |-> e.status,
              queue     |-> [e.queue EXCEPT ![ch] = rest],
              bytes     |-> e.bytes + transfer.size,
              transfers |-> e.transfers + 1,
              popped    |-> [e.popped EXCEPT ![ch] = Append(@, transfer)]]
    ELSE e

\* The iteration without the count of the transfer in total_transfers.
ProcessChannelUncounted(e, ch) ==
    IF e.queue[ch] # <<>>
    THEN LET p        == ListPop0(e.queue[ch])
             transfer == p[1]
             rest     == p[2]
         IN  [status    |-> IF rest = <<>>
                            THEN [e.status EXCEPT ![ch] = "idle"]
                            ELSE e.status,
              queue     |-> [e.queue EXCEPT ![ch] = rest],
              bytes     |-> e.bytes + transfer.size,
              transfers |-> e.transfers,
              popped    |-> [e.popped EXCEPT ![ch] = Append(@, transfer)]]
    ELSE e

\* One iteration of the loop of process_transfers, for channel ch.
ProcessChannel(e, ch) ==
    IF e.queue[ch] # <<>>
    THEN LET p        == ListPop0(e.queue[ch])
             transfer == p[1]
             rest     == p[2]
         IN  [status    |-> IF rest = <<>>
                            THEN [e.status EXCEPT ![ch] = "idle"]
                            ELSE e.status,
              queue     |-> [e.queue EXCEPT ![ch] = rest],
              bytes     |-> e.bytes + transfer.size,
              transfers |-> e.transfers + 1,
              popped    |-> [e.popped EXCEPT ![ch] = Append(@, transfer)]]
    ELSE e

\* The loop with a break after the first channel that had a transfer.
RECURSIVE ProcessLoopBreak(_, _)
ProcessLoopBreak(e, ch) ==
    IF ch >= NumChannels THEN e
    ELSE IF e.queue[ch] # <<>> THEN ProcessChannel(e, ch)
    ELSE ProcessLoopBreak(e, ch + 1)

\* for ch in range(self.num_channels), from channel ch on.
RECURSIVE ProcessLoop(_, _)
ProcessLoop(e, ch) ==
    IF ch >= NumChannels THEN e
    ELSE ProcessLoop(ProcessChannel(e, ch), ch + 1)

process_transfers ==
    LET e == ProcessLoop(Engine, 0)
    IN  /\ op' = "process_transfers"
        /\ outcome' = "ok"
        /\ channel_status' = e.status
        /\ transfer_queue' = e.queue
        /\ total_bytes_transferred' = e.bytes
        /\ total_transfers' = e.transfers
        /\ dequeued' = e.popped
        /\ drain_calls' = IF \E ch \in ChannelIds : transfer_queue[ch] # <<>>
                          THEN drain_calls + 1 ELSE drain_calls
        /\ UNCHANGED <<dma_channel, enqueued, accepted, drain_from, threads>>

(***************************************************************************)
(* MemoryMappedIO                                                          *)
(***************************************************************************)
\* The keys of self.registers.
RegisterNames ==
    {"CONTROL", "STATUS", "LASER_POWER", "MODULATOR_BIAS", "PHASE_SHIFTER_0",
     "PHASE_SHIFTER_1", "WDM_CHANNEL_SELECT", "DETECTOR_THRESHOLD",
     "INTERRUPT_ENABLE", "INTERRUPT_STATUS", "DMA_CONTROL", "PERFORMANCE_COUNTER"}

LaserDacScale  == 4095    \* (power_mw / 100.0) * 4095
LaserFullPower == 100     \* power_mw / 100.0
PhaseDacScale  == 65535   \* (phase_rad / (2 * np.pi)) * 65535
NumLasers      == 4       \* self.num_lasers = 4
InitLaserPower == 50      \* configure_laser(power_mw=50.0)
ResetBit       == 1       \* write_register('CONTROL', 0x0001)
InterruptsAll  == 65535   \* write_register('INTERRUPT_ENABLE', 0xFFFF)

\* The value None that a method without a return statement returns.
ReturnedNone == [returned |-> "None"]

\* self.register_values = {name: 0 for name in self.registers}
MMIOInit ==
    /\ register_values = [name \in RegisterNames |-> 0]
    /\ mmio_result = NoResult
    /\ mmio_args = <<>>
    /\ call_writes = <<>>
    /\ last_write = [name \in {} |-> 0]

\* int(num / den): Python's int() truncates towards zero.
IntTrunc(num, den) ==
    IF num >= 0 THEN num \div den ELSE 0 - ((0 - num) \div den)

\* What a method that ends with the write w returns or raises.
WriteResult(w) == IF w.raised # "" THEN Raise(w.raised) ELSE ReturnedNone

\* d[key] = value on a dict: a key that is not in the dict is added to it.
DictSet(d, key, value) ==
    [k \in DOMAIN d \cup {key} |-> IF k = key THEN value ELSE d[k]]

\* A write_register that stores without looking the name up.
RegisterWriteUnchecked(values, name, value) ==
    [values |-> DictSet(values, name, value), raised |-> ""]

\* write_register on the register file values: the file afterwards, and the
\* exception raised, if any.
RegisterWrite(values, name, value) ==
    IF name \notin RegisterNames
    THEN [values |-> values, raised |-> "ValueError"]
    ELSE [values |-> DictSet(values, name, value), raised |-> ""]

\* The write_register calls writes, made in order until one raises: the
\* register file afterwards, the exception, and the calls that returned.
RECURSIVE RunWrites(_, _, _)
RunWrites(values, writes, returned) ==
    IF writes = <<>> THEN [values |-> values, raised |-> "", returned |-> returned]
    ELSE CHOOSE out \in
             {IF w.raised # ""
              THEN [values |-> w.values, raised |-> w.raised, returned |-> returned]
              ELSE RunWrites(w.values, Tail(writes), Append(returned, Head(writes)))
                 : w \in {RegisterWrite(values, Head(writes)[1], Head(writes)[2])}} : TRUE

\* last_write after the calls writes have returned.
RECURSIVE Recorded(_, _)
Recorded(last, writes) ==
    IF writes = <<>> THEN last
    ELSE Recorded(DictSet(last, Head(writes)[1], Head(writes)[2]), Tail(writes))

\* A method whose effect on the registers is the write_register calls writes.
RunMethod(name, args, writes) ==
    \E w \in {RunWrites(register_values, writes, <<>>)} :
        /\ op' = name
        /\ mmio_args' = args
        /\ register_values' = w.values
        /\ mmio_result' = WriteResult(w)
        /\ outcome' = OutcomeOf(WriteResult(w))
        /\ call_writes' = writes
        /\ last_write' = Recorded(last_write, w.returned)

write_register(name, value) ==
    RunMethod("write_register", <<name, value>>, <<<<name, value>>>>)

\* A register read that clears the register it returns.
read_register_clearing(name) ==
    /\ op' = "read_register"
    /\ IF name \notin RegisterNames
       THEN /\ mmio_result' = Raise("ValueError")
            /\ outcome' = "ValueError"
            /\ UNCHANGED register_values
       ELSE /\ mmio_result' = [returns |-> register_values[name]]
            /\ outcome' = "ok"
            /\ register_values' = [register_values EXCEPT ![name] = 0]
    /\ mmio_args' = <<name>>
    /\ call_writes' = <<>>
    /\ UNCHANGED last_write

read_register(name) ==
    /\ op' = "read_register"
    /\ IF name \notin RegisterNames
       THEN /\ mmio_result' = Raise("ValueError")
            /\ outcome' = "ValueError"
       ELSE /\ mmio_result' = [returns |-> register_values[name]]
            /\ outcome' = "ok"
    /\ mmio_args' = <<name>>
    /\ call_writes' = <<>>
    /\ UNCHANGED <<register_values, last_write>>

\* dac_value of configure_laser, power_mw in whole milliwatts.
LaserDac(power_mw) == IntTrunc(power_mw * LaserDacScale, LaserFullPower)

LaserWrite(power_mw) == <<"LASER_POWER", LaserDac(power_mw)>>

configure_laser(power_mw) ==
    RunMethod("configure_laser", <<power_mw>>, <<LaserWrite(power_mw)>>)

\* dac_value of set_phase_shifter, the phase in quarter turns (units of pi/2).
PhaseDac(phase) == IntTrunc(phase * PhaseDacScale, 4)

\* An index other than 0 and 1 writes nothing.
set_phase_shifter(index, phase) ==
    RunMethod("set_phase_shifter", <<index, phase>>,
              IF index = 0 THEN <<<<"PHASE_SHIFTER_0", PhaseDac(phase)>>>>
              ELSE IF index = 1 THEN <<<<"PHASE_SHIFTER_1", PhaseDac(phase)>>>>
              ELSE <<>>)

(***************************************************************************)
(* PhotonicPCIeBoard: self.dma is the engine and self.mmio the registers   *)
(* above.                                                                  *)
(***************************************************************************)
\* for i in range(self.num_lasers): self.mmio.configure_laser(power_mw=50.0)
LaserWrites == [i \in 1 .. NumLasers |-> LaserWrite(InitLaserPower)]

\* An initialize that sets the reset bit after it has enabled the interrupts.
InitializeWritesResetLast ==
    LaserWrites \o <<<<"CONTROL", 0>>, <<"INTERRUPT_ENABLE", InterruptsAll>>,
                    <<"CONTROL", ResetBit>>>>

\* The write_register calls of initialize, in the order it makes them.
InitializeWrites ==
    LaserWrites \o <<<<"CONTROL", ResetBit>>, <<"CONTROL", 0>>,
                    <<"INTERRUPT_ENABLE", InterruptsAll>>>>

initialize == RunMethod("initialize", <<>>, InitializeWrites)

\* transfer_matrix_to_device(matrix) with matrix.nbytes = size_bytes: one
\* initiate_transfer on channel 0, then process_transfers.  The time returned
\* depends on size_bytes and the PCIe configuration alone.
transfer_matrix_to_device(size_bytes) ==
    LET transfer == Transfer(HostAddr, DeviceAddr, size_bytes, "h2d")
        queued   == [Engine EXCEPT !.queue[0] = ListAppend(@, transfer),
                                   !.status[0] = "busy"]
    IN  \E e \in {ProcessLoop(queued, 0)} :
            /\ accepted < MaxInitiated
            /\ op' = "transfer_matrix_to_device"
            /\ outcome' = "ok"
            /\ channel_status' = e.status
            /\ transfer_queue' = e.queue
            /\ total_bytes_transferred' = e.bytes
            /\ total_transfers' = e.transfers
            /\ dequeued' = e.popped
            /\ enqueued' = [enqueued EXCEPT ![0] = Append(@, transfer)]
            /\ accepted' = accepted + 1
            /\ drain_from' = [ch \in ChannelIds |-> Len(queued.queue[ch])]
            /\ drain_calls' = 1
            /\ dma_channel' = 0
            /\ UNCHANGED threads

\* matrix.nbytes of the matrices transferred; an empty matrix has 0 bytes.
MatrixBytes == 0 .. MaxTransferSize

\* ---- transfer_matrix_to_device called by several callers on one board ----
\* Nothing makes a call atomic: a caller runs the statements of
\* initiate_transfer and process_transfers one at a time, and another caller
\* can run between any two of them.  x += y is a read of x and a later write.
ThreadAt(t, pc) == threads[t].pc = pc

Goto(t, pc) == threads' = [threads EXCEPT ![t].pc = pc]

\* The next iteration of for ch in range(self.num_channels), or its end.
NextChannel(t) ==
    threads' = [threads EXCEPT ![t].ch = @ + 1,
                               ![t].pc = IF threads[t].ch + 1 >= NumChannels
                                         THEN "done" ELSE "test_queue"]

\* The statement has run without an exception; the histories of whole calls
\* are left alone.
ThreadRan ==
    /\ op' = "transfer_matrix_to_device"
    /\ outcome' = "ok"
    /\ UNCHANGED <<dma_channel, drain_from, drain_calls>>

\* The matrix of caller t has t bytes.
ThreadTransfer(t) == Transfer(HostAddr, DeviceAddr, t, "h2d")

\* self.transfer_queue[channel].append(transfer), with channel = 0
ThreadAppend(t) ==
    /\ ThreadAt(t, "call")
    /\ transfer_queue' = [transfer_queue EXCEPT ![0] = ListAppend(@, ThreadTransfer(t))]
    /\ enqueued' = [enqueued EXCEPT ![0] = Append(@, ThreadTransfer(t))]
    /\ accepted' = accepted + 1
    /\ Goto(t, "set_busy")
    /\ ThreadRan
    /\ UNCHANGED <<channel_status, total_bytes_transferred, total_transfers, dequeued>>

\* self.channel_status[channel] = 'busy'; process_transfers starts at ch = 0
ThreadSetBusy(t) ==
    /\ ThreadAt(t, "set_busy")
    /\ channel_status' = [channel_status EXCEPT ![0] = "busy"]
    /\ Goto(t, "test_queue")
    /\ ThreadRan
    /\ UNCHANGED <<transfer_queue, total_bytes_transferred, total_transfers,
                   enqueued, dequeued, accepted>>

\* if self.transfer_queue[ch]:
ThreadTestQueue(t) ==
    /\ ThreadAt(t, "test_queue")
    /\ IF transfer_queue[threads[t].ch] # <<>> THEN Goto(t, "pop") ELSE NextChannel(t)
    /\ ThreadRan
    /\ UNCHANGED <<dmaObject, enqueued, dequeued, accepted>>

\* transfer = self.transfer_queue[ch].pop(0), IndexError on an empty list
ThreadPop(t) ==
    /\ ThreadAt(t, "pop")
    /\ UNCHANGED <<dma_channel, drain_from, drain_calls>>
    /\ op' = "transfer_matrix_to_device"
    /\ IF transfer_queue[threads[t].ch] = <<>>
       THEN /\ outcome' = "IndexError"
            /\ Goto(t, "raised")
            /\ UNCHANGED <<dmaObject, enqueued, dequeued, accepted>>
       ELSE \E p \in {ListPop0(transfer_queue[threads[t].ch])} :
                /\ outcome' = "ok"
                /\ transfer_queue' = [transfer_queue EXCEPT ![threads[t].ch] = p[2]]
                /\ dequeued' = [dequeued EXCEPT ![threads[t].ch] = Append(@, p[1])]
                /\ threads' = [threads EXCEPT ![t].transfer = p[1],
                                              ![t].pc = "read_bytes"]
                /\ UNCHANGED <<channel_status, total_bytes_transferred,
                               total_transfers, enqueued, accepted>>

\* self.total_bytes_transferred += transfer['size']: the read
ThreadReadBytes(t) ==
    /\ ThreadAt(t, "read_bytes")
    /\ threads' = [threads EXCEPT ![t].read = total_bytes_transferred,
                                  ![t].pc = "write_bytes"]
    /\ ThreadRan
    /\ UNCHANGED <<dmaObject, enqueued, dequeued, accepted>>

\* ... and the write
ThreadWriteBytes(t) ==
    /\ ThreadAt(t, "write_bytes")
    /\ total_bytes_transferred' = threads[t].read + threads[t].transfer.size
    /\ Goto(t, "read_transfers")
    /\ ThreadRan
    /\ UNCHANGED <<channel_status, transfer_queue, total_transfers,
                   enqueued, dequeued, accepted>>

\* self.total_transfers += 1: the read
ThreadReadTransfers(t) ==
    /\ ThreadAt(t, "read_transfers")
    /\ threads' = [threads EXCEPT ![t].read = total_transfers,
                                  ![t].pc = "write_transfers"]
    /\ ThreadRan
    /\ UNCHANGED <<dmaObject, enqueued, dequeued, accepted>>

\* ... and the write
ThreadWriteTransfers(t) ==
    /\ ThreadAt(t, "write_transfers")
    /\ total_transfers' = threads[t].read + 1
    /\ Goto(t, "test_empty")
    /\ ThreadRan
    /\ UNCHANGED <<channel_status, transfer_queue, total_bytes_transferred,
                   enqueued, dequeued, accepted>>

\* if not self.transfer_queue[ch]:
ThreadTestEmpty(t) ==
    /\ ThreadAt(t, "test_empty")
    /\ IF transfer_queue[threads[t].ch] = <<>> THEN Goto(t, "set_idle")
       ELSE NextChannel(t)
    /\ ThreadRan
    /\ UNCHANGED <<dmaObject, enqueued, dequeued, accepted>>

\* self.channel_status[ch] = 'idle'
ThreadSetIdle(t) ==
    /\ ThreadAt(t, "set_idle")
    /\ channel_status' = [channel_status EXCEPT ![threads[t].ch] = "idle"]
    /\ NextChannel(t)
    /\ ThreadRan
    /\ UNCHANGED <<transfer_queue, total_bytes_transferred, total_transfers,
                   enqueued, dequeued, accepted>>

(***************************************************************************)
(* HybridFPGAPhotonic.partition_workload                                   *)
(***************************************************************************)
\* A dict returned by partition_workload; the fractions are in tenths.
Partition(fpga, photonic, unit) ==
    [fpga_fraction |-> fpga, photonic_fraction |-> photonic,
     recommended_unit |-> unit]

IntSize(n) == <<"int", n>>
NoneSize   == <<"none", 0>>

\* size > 512 where the code has size >= 512.
SizeAbove(n, threshold) == n > threshold

\* size >= 512
SizeAtLeast(n, threshold) == n >= threshold

\* A final branch that rejects the task type where the code returns a row.
UnknownTaskRaises == Raise("ValueError")

\* The return after the if/elif chain.
UnknownTaskResult == Partition(10, 0, "fpga")

\* The dict returned, or the exception raised: a size that is no number
\* cannot be compared with 512.
partition_workload(task_type, size) ==
    IF task_type = "matmul"
    THEN IF size[1] # "int" THEN Raise("TypeError")
         ELSE IF SizeAtLeast(size[2], SizeThreshold)
              THEN Partition(1, 9, "photonic")
              ELSE Partition(8, 2, "fpga")
    ELSE IF task_type = "fft" THEN Partition(2, 8, "photonic")
    ELSE IF task_type = "conv" THEN Partition(5, 5, "hybrid")
    ELSE UnknownTaskResult

TaskTypes == {"matmul", "fft", "conv", "MATMUL", "softmax", ""}

SizeArgs ==
    {IntSize(n) : n \in (SizeThreshold - SizeSpan) .. (SizeThreshold + SizeSpan)}
        \cup {IntSize(0), IntSize(-1), NoneSize}

PWIdle == pw_task = "" /\ pw_size = NoneSize /\ pw_result = NoResult

PartitionWorkload ==
    \E task_type \in TaskTypes, size \in SizeArgs :
        LET r == partition_workload(task_type, size)
        IN  /\ op' = "partition_workload"
            /\ pw_task' = task_type
            /\ pw_size' = size
            /\ pw_result' = r
            /\ outcome' = OutcomeOf(r)

(***************************************************************************)
(* TFLNPhotonicLink.link_budget                                            *)
(***************************************************************************)
\* TFLNWaveguide.propagation_loss('TE'): loss_te * (length / 10), length in mm.
PropagationLoss(length) == (LossTE * length) \div 10

\* TFLNMachZehnderModulator.insertion_loss
InsertionLoss(length) == PropagationLoss(length) + SplitLoss + CouplingLoss

\* margin >= 3.0 where the code has margin > 3.0.
AdequateInclusive(margin) == margin >= MarginFloor

\* margin > 3.0
Adequate(margin) == margin > MarginFloor

\* The dict returned by link_budget for a link of the given reach (metres).
link_budget(reach) ==
    LET modulator_loss == InsertionLoss(LinkInteractionLength)
        tx_power       == LaserPower - modulator_loss
        fiber_loss     == (FiberLossPerKm * reach) \div 1000
        margin         == tx_power - fiber_loss - RxSensitivity
    IN  [tx_power_dbm |-> tx_power, fiber_loss_db |-> fiber_loss,
         rx_sensitivity_dbm |-> RxSensitivity, link_margin_db |-> margin,
         adequate |-> Adequate(margin)]

\* The fiber loss at which the margin is exactly the floor.
BoundaryFiberLoss ==
    LaserPower - InsertionLoss(LinkInteractionLength) - RxSensitivity - MarginFloor

\* Reaches in steps of 5 m (1/1000 dB of fiber loss) around the boundary, and
\* the two reaches of the application's links (2 km and 0.5 km).
ReachArgs ==
    {5 * k : k \in (BoundaryFiberLoss - ReachSpan) .. (BoundaryFiberLoss + ReachSpan)}
        \cup {2000, 500}

LinkIdle == link_reach = 0 /\ link_result = NoResult

LinkBudget ==
    \E reach \in ReachArgs :
        /\ op' = "link_budget"
        /\ outcome' = "ok"
        /\ link_reach' = reach
        /\ link_result' = link_budget(reach)

(***************************************************************************)
(* TFLNMachZehnderModulator.encode_pam4                                    *)
(***************************************************************************)
\* levels[symbol], times three: 0.0, v_pi / 3, 2 * v_pi / 3, v_pi.
Pam4Level(symbol, v_pi) ==
    CASE symbol = 0 -> 0
      [] symbol = 1 -> v_pi
      [] symbol = 2 -> 2 * v_pi
      [] symbol = 3 -> 3 * v_pi

\* The symbol with the two bits in the other order.
Pam4SymbolSwapped(b0, b1) == b0 + b1 * 2

\* symbol = bits[i] * 2 + bits[i+1]
Pam4Symbol(b0, b1) == b0 * 2 + b1

\* The guard that would pair a trailing bit with a zero.
HasPairPadded(i, n) == i < n

\* if i + 1 < len(bits)
HasPair(i, n) == i + 1 < n

\* bits[i] of a numpy array of length n, 0-based; 0 stands in beyond the end.
BitAt(bits, i) == IF i < Len(bits) THEN bits[i + 1] ELSE 0

\* for i in range(0, len(bits), 2), from index i on.
RECURSIVE Pam4Loop(_, _, _, _)
Pam4Loop(bits, v_pi, i, symbols) ==
    IF i >= Len(bits) THEN symbols
    ELSE IF HasPair(i, Len(bits))
         THEN Pam4Loop(bits, v_pi, i + 2,
                       Append(symbols,
                              Pam4Level(Pam4Symbol(BitAt(bits, i), BitAt(bits, i + 1)),
                                        v_pi)))
         ELSE Pam4Loop(bits, v_pi, i + 2, symbols)

encode_pam4(bits, v_pi) == Pam4Loop(bits, v_pi, 0, <<>>)

RECURSIVE BitArrays(_)
BitArrays(n) ==
    IF n = 0 THEN {<<>>}
    ELSE BitArrays(n - 1)
             \cup {Append(b, x) : b \in {c \in BitArrays(n - 1) : Len(c) = n - 1},
                                  x \in {0, 1}}

PamIdle == pam_vpi = 1 /\ pam_bits = <<>> /\ pam_out = <<>>

EncodePam4 ==
    \E v_pi \in 1 .. MaxVpi, bits \in BitArrays(MaxBits) :
        /\ op' = "encode_pam4"
        /\ outcome' = "ok"
        /\ pam_vpi' = v_pi
        /\ pam_bits' = bits
        /\ pam_out' = encode_pam4(bits, v_pi)

(***************************************************************************)
(* PhotonicMatrixMultiplier                                                *)
(*                                                                         *)
(* Angles are whole quarter turns, so that cos, sin and exp(1j * phi) are  *)
(* exact; amplitudes are Gaussian integers <<re, im>>.                     *)
(***************************************************************************)
\* np.cos and np.sin of a quarter turns.
Cos4(a) == CASE a % 4 = 0 -> 1 [] a % 4 = 1 -> 0 [] a % 4 = 2 -> -1 [] a % 4 = 3 -> 0
Sin4(a) == CASE a % 4 = 0 -> 0 [] a % 4 = 1 -> 1 [] a % 4 = 2 -> 0 [] a % 4 = 3 -> -1

\* Complex arithmetic.
CAdd(x, y)   == <<x[1] + y[1], x[2] + y[2]>>
CSub(x, y)   == <<x[1] - y[1], x[2] - y[2]>>
CMul(x, y)   == <<x[1] * y[1] - x[2] * y[2], x[1] * y[2] + x[2] * y[1]>>
CScale(r, x) == <<r * x[1], r * x[2]>>
CConj(x)     == <<x[1], 0 - x[2]>>
CExpJ(a)     == <<Cos4(a), Sin4(a)>>       \* np.exp(1j * a)

\* self.num_mzi = size * (size - 1) // 2
NumMzi(size) == (size * (size - 1)) \div 2

\* A transposed coefficient: c = np.sin(theta).
MziCosAsSin(theta) == Sin4(theta)

\* c = np.cos(theta)
MziCos(theta) == Cos4(theta)

\* s = np.sin(theta) * np.exp(1j * phi)
MziSin(theta, phi) == CScale(Sin4(theta), CExpJ(phi))

\* The 2x2 transformation of one stage on state[i], state[j] (0-based).
MziApply(state, i, j, theta, phi) ==
    LET c      == MziCos(theta)
        sn     == MziSin(theta, phi)
        temp_i == CSub(CScale(c, state[i + 1]), CMul(sn, state[j + 1]))
        temp_j == CAdd(CMul(CConj(sn), state[i + 1]), CScale(c, state[j + 1]))
    IN  [state EXCEPT ![i + 1] = temp_i, ![j + 1] = temp_j]

\* An inner loop that starts at i: for j in range(i, self.size).
InnerStartAtI(i) == i

\* for j in range(i+1, self.size)
InnerStart(i) == i + 1

\* The body of the loops of multiply at indices (i, j): r carries the local
\* state, idx, the stages applied so far and the exception raised by an index
\* beyond the end of the state vector.
MultiplyBody(m, i, j, r) ==
    IF r.idx < m.num_mzi
    THEN IF j >= Len(r.state)
         THEN [r EXCEPT !.raised = "IndexError"]
         ELSE LET theta == m.theta[r.idx + 1]
                  phi   == m.phi[r.idx + 1]
              IN  [state  |-> MziApply(r.state, i, j, theta, phi),
                   idx    |-> r.idx + 1,
                   stages |-> Append(r.stages,
                                     [i |-> i, j |-> j, idx |-> r.idx,
                                      theta |-> theta, phi |-> phi]),
                   raised |-> ""]
    ELSE r

\* The two nested loops of multiply over multiplier m, from indices (i, j) on.
\* (The one-element set makes TLC compute each iteration's result once.)
RECURSIVE MultiplyLoop(_, _, _, _)
MultiplyLoop(m, i, j, r) ==
    IF r.raised # "" \/ i >= m.size THEN r
    ELSE IF j >= m.size THEN MultiplyLoop(m, i + 1, InnerStart(i + 1), r)
    ELSE CHOOSE out \in {MultiplyLoop(m, i, j + 1, next) :
                            next \in {MultiplyBody(m, i, j, r)}} : TRUE

\* mm_vector, mm_out and mm_stages describe the last step when it was a
\* multiply, and are blank after any other step.
MMNoCall ==
    /\ mm_vector = <<>> /\ mm_out = NoResult /\ mm_stages = <<>>
    /\ mm_arrays = NoResult

MMClearCall ==
    /\ mm_vector' = <<>> /\ mm_out' = NoResult /\ mm_stages' = <<>>
    /\ mm_arrays' = NoResult

\* Arrays are objects: heap maps the identity of an array to its elements.
\* The caller's vector is array CallerArray.
CallerArray == 1

\* The identity of the array a call allocates.
FreshArray == CallerArray + 1

\* An astype that returns the array itself (copy=False on an array that is
\* complex already).
AstypeView(heap, id) == [heap |-> heap, id |-> id]

\* vector.astype(complex): a new array with the elements of array id.
AstypeComplex(heap, id) ==
    [heap |-> [k \in DOMAIN heap \cup {FreshArray} |->
                  IF k = FreshArray THEN heap[id] ELSE heap[k]],
     id |-> FreshArray]

\* The multiplier's fields.
Multiplier ==
    [size |-> mm_size, num_mzi |-> mm_num_mzi, theta |-> mm_theta, phi |-> mm_phi]

\* multiply(vector): state = vector.astype(complex) is a copy, and the
\* assignments state[i] = temp_i, state[j] = temp_j change the array state
\* names.
multiply(vector) ==
    \E m \in {Multiplier} :
    \E state \in {AstypeComplex([k \in {CallerArray} |-> vector], CallerArray)} :
    \E r \in {MultiplyLoop(m, 0, InnerStart(0),
                           [state |-> state.heap[state.id], idx |-> 0,
                            stages |-> <<>>, raised |-> ""])} :
        /\ op' = "multiply"
        /\ mm_vector' = vector
        /\ mm_stages' = r.stages
        /\ mm_arrays' = [heap |-> [state.heap EXCEPT ![state.id] = r.state],
                         returned |-> state.id]
        /\ mm_out' = IF r.raised # "" THEN Raise(r.raised) ELSE [returns |-> r.state]
        /\ outcome' = IF r.raised # "" THEN r.raised ELSE "ok"
        /\ UNCHANGED mmObject

\* np.angle and np.abs of a matrix element <<magnitude, argument>>, the
\* magnitude in units of pi/2 and the argument in quarter turns; np.angle
\* lies in (-pi, pi] and is 0 for 0.
NpAngle(u) == IF u[1] = 0 THEN 0 ELSE IF u[2] % 4 = 3 THEN -1 ELSE u[2] % 4
NpAbs(u)   == u[1]

\* The body of the loops of encode_matrix at indices (i, j); a carries theta,
\* phi and idx.
EncodeBody(num_mzi, U, i, j, a) ==
    IF a.idx < num_mzi
    THEN [theta |-> [a.theta EXCEPT ![a.idx + 1] = NpAngle(U[i][j])],
          phi   |-> [a.phi EXCEPT ![a.idx + 1] = NpAbs(U[i][j])],
          idx   |-> a.idx + 1]
    ELSE a

\* The two nested loops of encode_matrix, from indices (i, j) on.
RECURSIVE EncodeLoop(_, _, _, _, _, _)
EncodeLoop(n, num_mzi, U, i, j, a) ==
    IF i >= n THEN a
    ELSE IF j >= n THEN EncodeLoop(n, num_mzi, U, i + 1, i + 2, a)
    ELSE CHOOSE out \in {EncodeLoop(n, num_mzi, U, i, j + 1, next) :
                            next \in {EncodeBody(num_mzi, U, i, j, a)}} : TRUE

encode_matrix(matrix) ==
    \E a \in {EncodeLoop(mm_size, mm_num_mzi, matrix, 0, 1,
                         [theta |-> mm_theta, phi |-> mm_phi, idx |-> 0])} :
        /\ op' = "encode_matrix"
        /\ outcome' = "ok"
        /\ mm_theta' = a.theta
        /\ mm_phi' = a.phi
        /\ UNCHANGED <<mm_size, mm_num_mzi>>
        /\ MMClearCall

\* compute_throughput, in tenths of a TOPS: size ** 2 / (0.01e-9) / 1e12.
compute_throughput == mm_size * mm_size

\* PhotonicMatrixMultiplier(size), with the random phases theta and phi.
mm_construct(size, theta, phi) ==
    /\ op' = "PhotonicMatrixMultiplier"
    /\ outcome' = "ok"
    /\ mm_size' = size
    /\ mm_num_mzi' = NumMzi(size)
    /\ mm_theta' = theta
    /\ mm_phi' = phi
    /\ MMClearCall

\* Phase arrays of length n: a start value and a step per index.
ThetaArrays(n) == {[k \in 1 .. n |-> (a + d * (k - 1)) % 4] : a \in 0 .. 3, d \in 0 .. 1}
PhiArrays(n)   == {[k \in 1 .. n |-> a] : a \in 0 .. 1}

\* The n x n matrix of magnitude m whose arguments start at a and advance by
\* d along rows and columns.
MatrixOf(n, m, a, d) ==
    [i \in 0 .. n - 1 |-> [j \in 0 .. n - 1 |-> <<m, (a + d * (i + j)) % 4>>]]

MatrixArgs(n) == {MatrixOf(n, m, a, d) : m \in 0 .. 1, a \in 0 .. 3, d \in 0 .. 1}

Amplitudes == {<<0, 0>>, <<1, 0>>}

\* Vectors as long as the mesh is wide, and one element shorter.
VectorArgs(n) ==
    UNION {[1 .. len -> Amplitudes] : len \in {l \in {n - 1, n} : l >= 0}}

MMIdle ==
    /\ mm_size = 0
    /\ mm_num_mzi = NumMzi(0)
    /\ mm_theta = <<>>
    /\ mm_phi = <<>>
    /\ MMNoCall

(***************************************************************************)
(* github_uploader.upload_file: a GET of the contents URL of the file and  *)
(* at most one PUT to it.  The server answers each request with any status *)
(* and body, or not at all.                                                *)
(***************************************************************************)
\* Python values: a str, or None.
PyStr(text) == <<"str", text>>
PyNone      == <<"none", "">>

\* if value: a str is true unless it is empty, None is false.
Truthy(value) == value[1] = "str" /\ value[2] # ""

\* d.get(key) on a dict.
DictGet(d, key) == IF key \in DOMAIN d THEN d[key] ELSE PyNone

\* The bodies of an answer: a JSON object, a JSON array (the contents of a
\* directory), or text that is not JSON.
JsonObject(d) == [kind |-> "object", dict |-> d]
JsonArray     == [kind |-> "array", dict |-> <<>>]
NotJson       == [kind |-> "text", dict |-> <<>>]

Bodies ==
    {JsonObject([name |-> PyStr("f"), sha |-> sha]) :
         sha \in {PyStr("a1"), PyStr("b2"), PyStr(""), PyNone}}
        \cup {JsonObject([name |-> PyStr("f")]), JsonArray, NotJson}

\* An answer of the server, or none (arrived = FALSE: the connection failed).
Answer(status, body) == [arrived |-> TRUE, status |-> status, body |-> body]
NoAnswer == [arrived |-> FALSE, status |-> 0, body |-> NotJson]

GetAnswers ==
    {Answer(200, body) : body \in Bodies}
        \cup {Answer(status, NotJson) : status \in {204, 401, 403, 404, 500}}
        \cup {NoAnswer}

PutAnswers ==
    {Answer(status, JsonObject([name |-> PyStr("f")])) :
         status \in {200, 201, 202, 403, 409, 422, 500}}
        \cup {NoAnswer}

\* urllib.request.urlopen: URLError when no answer arrives, HTTPError for an
\* answer that is not a 2xx, the response otherwise.
UrlopenRaises(answer) ==
    IF ~answer.arrived THEN "URLError"
    ELSE IF answer.status \in 200 .. 299 THEN "" ELSE "HTTPError"

\* The existence check: the local sha after it, and what upload_file has
\* returned or raised in it, if it has.  Only HTTPError is caught.
CheckExisting(answer) ==
    IF UrlopenRaises(answer) = "URLError"
    THEN [sha |-> PyNone, done |-> Raise("URLError")]
    ELSE IF UrlopenRaises(answer) = "HTTPError"
    THEN IF answer.status # 404
         THEN [sha |-> PyNone, done |-> [returns |-> FALSE]]
         ELSE [sha |-> PyNone, done |-> NoResult]
    ELSE IF answer.status = 200
    THEN IF answer.body.kind = "text"
         THEN [sha |-> PyNone, done |-> Raise("JSONDecodeError")]
         ELSE IF answer.body.kind = "array"
         THEN [sha |-> PyNone, done |-> Raise("AttributeError")]
         ELSE [sha |-> DictGet(answer.body.dict, "sha"), done |-> NoResult]
    ELSE [sha |-> PyNone, done |-> NoResult]

\* A payload that carries the sha whatever it is.
PayloadAlwaysSha(file, sha) ==
    [message |-> file, content |-> file, sha |-> sha]

\* data = {"message": ..., "content": ...}; if sha: data["sha"] = sha
Payload(file, sha) ==
    IF Truthy(sha)
    THEN [message |-> file, content |-> file, sha |-> sha]
    ELSE [message |-> file, content |-> file]

\* What upload_file returns after the answer to its PUT: True for a response
\* with status 200 or 201, False for any other response, for HTTPError and
\* for any other exception.
Uploaded(answer) == UrlopenRaises(answer) = "" /\ answer.status \in {200, 201}

Event(event, data) == [event |-> event, data |-> data]

UploadIdle ==
    /\ up_call = [pc |-> "idle", file |-> 0, sha |-> PyNone, result |-> NoResult]
    /\ up_log = <<>>

\* upload_file(token, repo, file_path, remote_path) up to its GET request.
upload_file(file) ==
    /\ up_call.pc = "idle"
    /\ op' = "upload_file"
    /\ outcome' = "ok"
    /\ up_call' = [pc |-> "get", file |-> file, sha |-> PyNone, result |-> NoResult]
    /\ up_log' = <<Event("GET", <<>>)>>

\* The answer to the GET, and what follows without waiting: the return or
\* the exception, or the payload and the PUT request.
get_answered(answer) ==
    /\ up_call.pc = "get"
    /\ op' = "upload_file"
    /\ \E c \in {CheckExisting(answer)} :
           IF c.done # NoResult
           THEN /\ up_call' = [up_call EXCEPT !.pc = "idle", !.sha = c.sha, !.result = c.done]
                /\ up_log' = Append(up_log, Event("GET answer", answer))
                /\ outcome' = OutcomeOf(c.done)
           ELSE /\ up_call' = [up_call EXCEPT !.pc = "put", !.sha = c.sha]
                /\ up_log' = up_log \o <<Event("GET answer", answer),
                                         Event("PUT", Payload(up_call.file, c.sha))>>
                /\ outcome' = "ok"

\* The answer to the PUT, and the return.
put_answered(answer) ==
    /\ up_call.pc = "put"
    /\ op' = "upload_file"
    /\ outcome' = "ok"
    /\ up_call' = [up_call EXCEPT !.pc = "idle", !.result = [returns |-> Uploaded(answer)]]
    /\ up_log' = Append(up_log, Event("PUT answer", answer))

(***************************************************************************)
(* Calls of methods that compute a value from the fields of their object.  *)
(* A caller makes one call, or two calls of one method on objects that     *)
(* differ in one field and compares what they return.                      *)
(***************************************************************************)
\* The call about to be made is a first call, or the second of two calls of
\* method name with the same arguments on objects that differ in field only.
CallGuard(name, self, args, field) ==
    \/ op = "init"
    \/ /\ op = name
       /\ call_before = NoResult
       /\ call_args = args
       /\ self # call_self
       /\ [self EXCEPT ![field] = call_self[field]] = call_self

Returned(name, self, args, value) ==
    /\ op' = name
    /\ outcome' = "ok"
    /\ call_self' = self
    /\ call_args' = args
    /\ call_result' = [returns |-> value]
    /\ call_before' = IF op = "init" THEN NoResult
                      ELSE [self |-> call_self, args |-> call_args,
                            result |-> call_result]

\* The float k units in the last place above x > 0.
Ulps(x, k) == [x EXCEPT !.m = BAdd(@, <<k>>)]

(***************************************************************************)
(* TFLN devices: TFLNMaterialProperties, TFLNWaveguide,                    *)
(* TFLNMachZehnderModulator, TFLNRingModulator (tfln_components.py)        *)
(***************************************************************************)
\* np.pi = 3.141592653589793
NpPi == FLit(314159265, 3589793, 15)

\* 10 * np.log10(np.e), with np.log10(np.e) = 0.4342944819032518
TenLog10E == FMul(FInt(10), FLit(434294481, 9032518, 16))

\* The literals 1e-3, 1e-6, 1e-9, 1e-12, 1e9 and 1e12 of the unit conversions.
Unit ==
    [milli |-> FDec(1, 3), micro |-> FDec(1, 6), nano |-> FDec(1, 9),
     pico |-> FDec(1, 12), giga |-> FInt(1000000000),
     tera |-> FMul(FInt(1000000), FInt(1000000))]

\* The members of TFLNWaferType, by value.
WaferTypes == {"X-cut", "Y-cut", "Z-cut"}

\* Values a caller can pass for a wafer type: the members, and values that
\* are no member (a string that names no cut, None).
WaferArgs == WaferTypes \cup {"W-cut", "None"}

\* TFLNMaterialProperties(): the defaults of the dataclass.
material ==
    [n_ordinary |-> FDec(2211, 3), n_extraordinary |-> FDec(2138, 3),
     r33 |-> FDec(308, 1), r13 |-> FDec(86, 1), r22 |-> FDec(34, 1),
     loss_te |-> FDec(27, 2), loss_tm |-> FDec(30, 2)]

get_pockels_coefficient(wafer_type) ==
    IF wafer_type = "X-cut" THEN material.r33
    ELSE IF wafer_type = "Y-cut" THEN material.r22
    ELSE material.r13

\* The literals of TFLNWaveguide: n_clad = 1.45, the single-mode limit 2.405
\* of V, c = 3e8 and the group index factor 1.05.
Waveguide ==
    [n_clad |-> FDec(145, 2), cutoff |-> FDec(2405, 3),
     c |-> FInt(300000000), group |-> FDec(105, 2)]

\* V of effective_index
NormalizedFrequency(width, wavelength, n_core) ==
    FMul(FMul(FDiv(FMul(FInt(2), NpPi), FMul(wavelength, Unit.milli)), width),
         FSqrt(FSub(FMul(n_core, n_core),
                    FMul(Waveguide.n_clad, Waveguide.n_clad))))

\* b of effective_index
Confinement(V) ==
    IF FLess(V, Waveguide.cutoff)
    THEN FMul(FDiv(V, Waveguide.cutoff), FDiv(V, Waveguide.cutoff))
    ELSE FSub(FInt(1), FMul(FDiv(Waveguide.cutoff, V), FDiv(Waveguide.cutoff, V)))

\* TFLNWaveguide.effective_index
effective_index(width, wavelength, polarization) ==
    LET n_core == IF polarization = "TE" THEN material.n_extraordinary
                  ELSE material.n_ordinary
    IN  FAdd(Waveguide.n_clad,
             FMul(FSub(n_core, Waveguide.n_clad),
                  Confinement(NormalizedFrequency(width, wavelength, n_core))))

\* The waveguides of the devices: 1.5 um wide in a Mach-Zehnder modulator,
\* 1.2 um in a ring, at the wavelengths of WavelengthArgs.
WidthArgs == {FDec(15, 1), FDec(12, 1)}

WavelengthArgs == {FInt(1550), FInt(1310)}

\* self.waveguide.effective_index('TE') of these waveguides
EffectiveIndexTE ==
    [width \in WidthArgs, wavelength \in WavelengthArgs |->
         effective_index(width, wavelength, "TE")]

\* TFLNWaveguide.group_velocity('TE')
group_velocity(width, wavelength) ==
    FDiv(Waveguide.c, FMul(EffectiveIndexTE[width, wavelength], Waveguide.group))

\* TFLNMachZehnderModulator(interaction_length, electrode_gap, wafer_type,
\* wavelength); its waveguide is 1.5 um wide.
Modulator(interaction_length, electrode_gap, wafer_type, wavelength) ==
    [class |-> "TFLNMachZehnderModulator",
     interaction_length |-> interaction_length, electrode_gap |-> electrode_gap,
     wafer_type |-> wafer_type, wavelength |-> wavelength,
     width |-> FDec(15, 1)]

\* half_wave_voltage with the interaction length above the fraction bar.
half_wave_voltage_times_length(self, overlap_factor) ==
    FDiv(FMul(FMul(FMul(self.wavelength, Unit.nano),
                   FMul(self.electrode_gap, Unit.micro)),
              FMul(self.interaction_length, Unit.milli)),
         FMul(FMul(FMul(FCube(EffectiveIndexTE[self.width, self.wavelength]),
                        get_pockels_coefficient(self.wafer_type)), Unit.pico),
              overlap_factor))

\* n_eff ** 3 is taken as correctly rounded.
half_wave_voltage(self, overlap_factor) ==
    LET r_eff        == get_pockels_coefficient(self.wafer_type)
        n_eff        == EffectiveIndexTE[self.width, self.wavelength]
        wavelength_m == FMul(self.wavelength, Unit.nano)
        gap_m        == FMul(self.electrode_gap, Unit.micro)
        length_m     == FMul(self.interaction_length, Unit.milli)
    IN  FDiv(FMul(wavelength_m, gap_m),
             FMul(FMul(FMul(FMul(FCube(n_eff), r_eff), Unit.pico),
                       overlap_factor), length_m))

\* The literals of modulation_bandwidth and extinction_ratio: v_rf = 1.2e8,
\* 0.44, f_3db_loss = 120 and the 45 dB limit.
Limits ==
    [v_rf |-> FInt(120000000), factor |-> FDec(44, 2),
     f_3db_loss |-> FInt(120), er |-> FInt(45)]

\* The velocity-mismatch bound of modulation_bandwidth, in GHz.
f_3db_velocity(self) ==
    LET v_optical == group_velocity(self.width, self.wavelength)
        delta_v   == FAbs(FSub(v_optical, Limits.v_rf))
        length_m  == FMul(self.interaction_length, Unit.milli)
    IN  FDiv(FDiv(FMul(Limits.factor, v_optical), FMul(delta_v, length_m)),
             Unit.giga)

\* modulation_bandwidth without the ceiling.
modulation_bandwidth_uncapped(self) == f_3db_velocity(self)

modulation_bandwidth(self) == PyMin(f_3db_velocity(self), Limits.f_3db_loss)

\* np.log10((np.pi * phase_imbalance)**2) for a phase_imbalance of the form
\* digit * 10^exp with digit in -5 .. 5: log10 of pi and of the digits to
\* three decimals; np.log10(0.0) is -inf.
Log10PiMilli == 497

Log10DigitMilli(digit) ==
    CASE Abs(digit) = 1 -> 0   [] Abs(digit) = 2 -> 301 [] Abs(digit) = 3 -> 477
      [] Abs(digit) = 4 -> 602 [] Abs(digit) = 5 -> 699

Log10OfSquare(phase_imbalance) ==
    IF phase_imbalance.digit = 0 THEN FInf(-1)
    ELSE FDec(2 * (Log10PiMilli + Log10DigitMilli(phase_imbalance.digit)
                       + 1000 * phase_imbalance.exp), 3)

\* extinction_ratio without the ceiling.
extinction_ratio_uncapped(self, phase_imbalance) ==
    FMul(FInt(-10), Log10OfSquare(phase_imbalance))

extinction_ratio(self, phase_imbalance) ==
    PyMin(FMul(FInt(-10), Log10OfSquare(phase_imbalance)), Limits.er)

\* ---- calls on a modulator ----
\* Interaction lengths in mm: 5, 10, .. 5 * MaxLengthSteps, the floats one and
\* sixteen units in the last place above each, and the lengths at which the
\* velocity bound leaves the ceiling: a negative one, zero, 1e-8, 3.1e-8.
LengthGrid == {FInt(5 * k) : k \in 1 .. MaxLengthSteps}

LengthArgs ==
    LengthGrid \cup {Ulps(l, 1) : l \in LengthGrid} \cup {Ulps(l, 16) : l \in LengthGrid}
        \cup {FInt(-1), FZero, FDec(1, 8), FDec(31, 9)}

GapArgs == {FInt(5), FInt(6)}

OverlapArgs == {FDec(8, 1), FDec(5, 1)}

\* phase_imbalance: 0, and digit * 10^-k for k up to MaxDecades
PhaseImbalanceArgs ==
    {[digit |-> digit, exp |-> 0 - k] : digit \in {0, 1, 2, 5, -1}, k \in 0 .. MaxDecades}

Modulators ==
    {Modulator(interaction_length, electrode_gap, wafer_type, wavelength) :
        interaction_length \in LengthArgs, electrode_gap \in GapArgs,
        wafer_type \in WaferTypes, wavelength \in WavelengthArgs}

DefaultModulator == Modulator(FInt(15), FInt(5), "X-cut", FInt(1550))

GetPockelsCoefficient ==
    \E wafer_type \in WaferArgs :
        /\ op = "init"
        /\ Returned("get_pockels_coefficient", [class |-> "TFLNMaterialProperties"],
                    [wafer_type |-> wafer_type],
                    get_pockels_coefficient(wafer_type))

HalfWaveVoltage ==
    \E self \in Modulators, overlap_factor \in OverlapArgs :
        /\ CallGuard("half_wave_voltage", self,
                     [overlap_factor |-> overlap_factor], "interaction_length")
        /\ \E r \in {half_wave_voltage(self, overlap_factor)} :
               Returned("half_wave_voltage", self,
                        [overlap_factor |-> overlap_factor], r)

ModulationBandwidth ==
    \E self \in Modulators :
        /\ op = "init"
        /\ \E r \in {modulation_bandwidth(self)} :
               Returned("modulation_bandwidth", self, NoResult, r)

ExtinctionRatio ==
    \E phase_imbalance \in PhaseImbalanceArgs :
        /\ op = "init"
        /\ \E r \in {extinction_ratio(DefaultModulator, phase_imbalance)} :
               Returned("extinction_ratio", DefaultModulator,
                        [phase_imbalance |-> phase_imbalance], r)

\* ---- TFLNRingModulator ----
\* TFLNRingModulator(radius, coupling_gap, wafer_type, wavelength); its
\* waveguide is 1.2 um wide.
Ring(radius, coupling_gap, wafer_type, wavelength) ==
    [class |-> "TFLNRingModulator", radius |-> radius,
     coupling_gap |-> coupling_gap, wafer_type |-> wafer_type,
     wavelength |-> wavelength, width |-> FDec(12, 1)]

\* circumference = 2 * np.pi * self.radius * 1e-6
circumference(self) == FMul(FMul(FMul(FInt(2), NpPi), self.radius), Unit.micro)

quality_factor(self) ==
    LET n_eff       == EffectiveIndexTE[self.width, self.wavelength]
        loss_per_rt == FMul(material.loss_te, FMul(circumference(self), FInt(100)))
        alpha       == FDiv(loss_per_rt, TenLog10E)
        Q           == FDiv(FMul(FMul(FMul(FInt(2), NpPi), n_eff), circumference(self)),
                            FMul(FMul(self.wavelength, Unit.nano), alpha))
    IN  FDiv(Q, FInt(2))

free_spectral_range(self) ==
    FDiv(FDiv(Waveguide.c,
              FMul(EffectiveIndexTE[self.width, self.wavelength], circumference(self))),
         Unit.giga)

\* tuning_efficiency with the gap of the ring's coupler for gap_m.
tuning_efficiency_of_coupling_gap(self) ==
    FMul(FDiv(FMul(FMul(FMul(self.wavelength,
                             FCube(EffectiveIndexTE[self.width, self.wavelength])),
                        get_pockels_coefficient(self.wafer_type)), Unit.pico),
              FMul(FInt(2), FMul(self.coupling_gap, Unit.nano))),
         Unit.tera)

\* gap_m = 5e-6, whatever the ring's coupling_gap
tuning_efficiency(self) ==
    FMul(FDiv(FMul(FMul(FMul(self.wavelength,
                             FCube(EffectiveIndexTE[self.width, self.wavelength])),
                        get_pockels_coefficient(self.wafer_type)), Unit.pico),
              FMul(FInt(2), FDec(5, 6))),
         Unit.tera)

RadiusArgs == {FInt(50), FInt(100)}

CouplingGapArgs == {FInt(150), FInt(200), FInt(300)}

Rings ==
    {Ring(radius, coupling_gap, wafer_type, wavelength) :
        radius \in RadiusArgs, coupling_gap \in CouplingGapArgs,
        wafer_type \in WaferTypes, wavelength \in WavelengthArgs}

QualityFactor ==
    \E self \in Rings :
        /\ CallGuard("quality_factor", self, NoResult, "coupling_gap")
        /\ \E r \in {quality_factor(self)} :
               Returned("quality_factor", self, NoResult, r)

FreeSpectralRange ==
    \E self \in Rings :
        /\ CallGuard("free_spectral_range", self, NoResult, "coupling_gap")
        /\ \E r \in {free_spectral_range(self)} :
               Returned("free_spectral_range", self, NoResult, r)

TuningEfficiency ==
    \E self \in Rings :
        /\ CallGuard("tuning_efficiency", self, NoResult, "coupling_gap")
        /\ \E r \in {tuning_efficiency(self)} :
               Returned("tuning_efficiency", self, NoResult, r)

(***************************************************************************)
(* PCIeConfiguration (pcie_interface.py)                                   *)
(***************************************************************************)
\* value[0] of the members of PCIeGeneration: 8.0, 16.0, 32.0, 64.0
PCIeGeneration == [GEN3 |-> 8, GEN4 |-> 16, GEN5 |-> 32, GEN6 |-> 64]

PCIeConfiguration(generation, num_lanes) ==
    [class |-> "PCIeConfiguration", generation |-> generation,
     num_lanes |-> num_lanes]

\* bandwidth_gbps without the 128b/130b efficiency.
bandwidth_gbps_unencoded(self) ==
    FMul(FInt(PCIeGeneration[self.generation]), FInt(self.num_lanes))

bandwidth_gbps(self) ==
    FMul(FMul(FInt(PCIeGeneration[self.generation]), FInt(self.num_lanes)),
         FDiv(FInt(128), FInt(130)))

BandwidthGbps ==
    \E generation \in DOMAIN PCIeGeneration, num_lanes \in 1 .. MaxLanes :
        /\ op = "init"
        /\ \E r \in {bandwidth_gbps(PCIeConfiguration(generation, num_lanes))} :
               Returned("bandwidth_gbps", PCIeConfiguration(generation, num_lanes),
                        NoResult, r)

(***************************************************************************)
(* FPGAConfiguration, OpticalIOInterface, PhotonicCoprocessor,             *)
(* HybridFPGAPhotonic.execute_matrix_multiply and                          *)
(* LargeScaleComputeCluster.aggregate_performance (fpga_integration.py)    *)
(***************************************************************************)
\* FPGAConfiguration(): XILINX_VERSAL has 4272 DSP slices.
fpga ==
    [dsp_slices |-> 4272, dsp_utilization |-> FDec(90, 2), clock_freq_mhz |-> 500]

available_dsp_slices == FTruncInt(FMul(FInt(fpga.dsp_slices), fpga.dsp_utilization))

compute_gflops ==
    FDiv(FInt((available_dsp_slices * 2) * fpga.clock_freq_mhz), FInt(1000))

\* OpticalIOInterface(num_channels=32): 100.0 Gbps per channel
optical_io == [num_channels |-> 32, channel_rate_gbps |-> FInt(100)]

aggregate_bandwidth_tbps ==
    FDiv(FMul(FInt(optical_io.num_channels), optical_io.channel_rate_gbps), FInt(1000))

\* PhotonicCoprocessor(matrix_size=2048): latency_ns = 10.0
photonic_copro == [latency_ns |-> FInt(10)]

\* 2 * size ** 3, a Python int
TotalOps(size) == BMulSmall(BMul(BFromInt(size * size), BFromInt(Abs(size))), 2)

\* float(2 * size ** 3)
TotalOpsFloat(size) ==
    IF size < 0 THEN FNeg(FBig(TotalOps(size))) ELSE FBig(TotalOps(size))

\* total_time_ms without the transfer time.
TotalTimeWithoutTransfer(fpga_time_ms, photonic_time_ns, transfer_time_ms) ==
    FAdd(fpga_time_ms, FDiv(photonic_time_ns, FInt(1000000)))

\* total_time_ms = fpga_time_ms + (photonic_time_ns / 1e6) + transfer_time_ms
TotalTime(fpga_time_ms, photonic_time_ns, transfer_time_ms) ==
    FAdd(FAdd(fpga_time_ms, FDiv(photonic_time_ns, FInt(1000000))),
         transfer_time_ms)

\* throughput_tflops = (total_ops / (total_time_ms / 1000)) / 1e12
Throughput(size, total_time_ms) ==
    FDiv(FDiv(TotalOpsFloat(size), FDiv(total_time_ms, FInt(1000))), Unit.tera)

\* The dict returned for an int size and the partition of its workload.
MatmulResult(size, partition, fpga_time_ms, transfer_time_ms) ==
    CHOOSE out \in
        {[size |-> size,
          fpga_time_ms |-> fpga_time_ms,
          photonic_time_ns |-> photonic_copro.latency_ns,
          transfer_time_ms |-> transfer_time_ms,
          total_time_ms |-> total_time_ms,
          throughput_tflops |-> Throughput(size[2], total_time_ms),
          partition |-> partition] :
            total_time_ms \in {TotalTime(fpga_time_ms, photonic_copro.latency_ns,
                                         transfer_time_ms)}} : TRUE

\* The value returned, or the exception partition_workload raises.
execute_matrix_multiply(size) ==
    CHOOSE out \in
        {IF Raised(partition) THEN partition
         ELSE [returns |->
                  MatmulResult(size, partition,
                      FMul(FDiv(FMul(FInt(size[2] * size[2]),
                                     FDec(partition.fpga_fraction, 1)),
                                FMul(compute_gflops, Unit.giga)),
                           FInt(1000)),
                      FMul(FDiv(FDiv(FInt(size[2] * size[2] * 4), Unit.giga),
                                aggregate_bandwidth_tbps),
                           FInt(1000)))] :
            partition \in {partition_workload("matmul", size)}} : TRUE

\* Matrix sizes: those around the threshold of partition_workload, 0, -1, a
\* size that is no number, and the multiples of 16 up to 16 * MaxSizeSteps.
MatmulSizeArgs == SizeArgs \cup {IntSize(16 * k) : k \in 0 .. MaxSizeSteps}

ExecuteMatrixMultiply ==
    \E size \in MatmulSizeArgs :
        /\ op = "init"
        /\ \E r \in {execute_matrix_multiply(size)} :
               /\ op' = "execute_matrix_multiply"
               /\ outcome' = OutcomeOf(r)
               /\ call_self' = [class |-> "HybridFPGAPhotonic"]
               /\ call_args' = [size |-> size]
               /\ call_result' = r
               /\ call_before' = NoResult

\* LargeScaleComputeCluster(num_nodes)
Cluster(num_nodes) ==
    [class |-> "LargeScaleComputeCluster", num_nodes |-> num_nodes]

\* The literals of aggregate_performance: 10.0 TFLOPS, 75.0 W and 2.0 W a node.
Node ==
    [single_node_tflops |-> FInt(10), fpga_power_w |-> FInt(75),
     photonic_power_w |-> FInt(2)]

\* The dict returned, from its two computed totals.
Aggregate(self, total_pflops, total_power_kw) ==
    [num_nodes |-> self.num_nodes,
     total_pflops |-> total_pflops,
     total_power_kw |-> total_power_kw,
     efficiency_gflops_per_watt |->
         FDiv(FMul(total_pflops, FInt(1000000)), FMul(total_power_kw, FInt(1000))),
     total_memory_tb |-> FDiv(FInt(self.num_nodes * (64 + 32)), FInt(1024)),
     optical_fabric_pbps |-> FInt(1),
     network_topology |-> "Dragonfly+"]

\* aggregate_performance with the total_pflops of a single node.
aggregate_performance_of_one_node(self) ==
    Aggregate(self,
              FDiv(Node.single_node_tflops, FInt(1000)),
              FDiv(FMul(FAdd(Node.fpga_power_w, Node.photonic_power_w),
                        FInt(self.num_nodes)), FInt(1000)))

aggregate_performance(self) ==
    Aggregate(self,
              FDiv(FMul(Node.single_node_tflops, FInt(self.num_nodes)), FInt(1000)),
              FDiv(FMul(FAdd(Node.fpga_power_w, Node.photonic_power_w),
                        FInt(self.num_nodes)), FInt(1000)))

\* One call on a cluster, or a call on a one-node cluster followed by a call
\* on a larger cluster.
AggregatePerformance ==
    \E num_nodes \in 1 .. MaxNodes :
        /\ \/ op = "init"
           \/ /\ op = "aggregate_performance"
              /\ call_before = NoResult
              /\ call_self.num_nodes = 1
              /\ num_nodes # 1
        /\ \E r \in {aggregate_performance(Cluster(num_nodes))} :
               Returned("aggregate_performance", Cluster(num_nodes), NoResult, r)

(***************************************************************************)
(* Claims about the DMA engine                                             *)
(***************************************************************************)
RECURSIVE SumOver(_, _)
SumOver(S, f) ==
    IF S = {} THEN 0
    ELSE LET x == CHOOSE y \in S : TRUE IN f[x] + SumOver(S \ {x}, f)

NonEmptyChannels == {ch \in ChannelIds : transfer_queue[ch] # <<>>}

HeadSizes == [ch \in NonEmptyChannels |-> Head(transfer_queue[ch]).size]

C1_InitiateStep ==
    (op' = "initiate_transfer" /\ outcome' = "ok") =>
        \E ch \in ChannelIds :
            /\ dma_channel' \in ChannelIds => ch = dma_channel'
            /\ Len(transfer_queue'[ch]) = Len(transfer_queue[ch]) + 1
            /\ SubSeq(transfer_queue'[ch], 1, Len(transfer_queue[ch]))
                   = transfer_queue[ch]
            /\ transfer_queue'[ch][Len(transfer_queue'[ch])].status = "pending"
            /\ \A d \in ChannelIds \ {ch} : transfer_queue'[d] = transfer_queue[d]
            /\ total_transfers' = total_transfers
            /\ total_bytes_transferred' = total_bytes_transferred

C1_ProcessStep ==
    op' = "process_transfers" =>
        /\ \A ch \in ChannelIds :
               IF transfer_queue[ch] # <<>>
               THEN transfer_queue'[ch] = Tail(transfer_queue[ch])
               ELSE transfer_queue'[ch] = <<>>
        /\ total_transfers' = total_transfers + Cardinality(NonEmptyChannels)
        /\ total_bytes_transferred' =
               total_bytes_transferred + SumOver(NonEmptyChannels, HeadSizes)

\* C1: an accepted initiate_transfer appends exactly one pending entry to the
\* queue of its channel and touches no other queue and no counter; a
\* process_transfers removes exactly the head of every non-empty queue, leaves
\* empty queues empty, adds the number of non-empty channels to
\* total_transfers and the sizes of the removed entries to
\* total_bytes_transferred.
C1_EnqueueOneDequeueOnePerChannel == [][C1_InitiateStep /\ C1_ProcessStep]_vars

\* A process_transfers has just removed an entry from every channel at once,
\* leaving one of them non-empty.
C1_Witness ==
    /\ op = "process_transfers"
    /\ \A ch \in ChannelIds : dequeued[ch] # <<>>
    /\ NonEmptyChannels # {}
    /\ total_transfers = NumChannels
    /\ total_bytes_transferred > NumChannels

C2_FifoOrder ==
    \A ch \in ChannelIds : enqueued[ch] = dequeued[ch] \o transfer_queue[ch]

C2_OtherQueuesUntouched ==
    op' = "initiate_transfer" =>
        \A d \in ChannelIds :
            (d # dma_channel' /\ d # dma_channel' + NumChannels)
                => transfer_queue'[d] = transfer_queue[d]

\* C2: per channel, the transfers popped so far followed by the transfers
\* still queued are exactly the transfers enqueued on it, in enqueue order
\* (so process_transfers dequeues in FIFO order), and an initiate_transfer
\* leaves the queue of every channel other than its own as it was.
C2_FifoAndIndependent == []C2_FifoOrder /\ [][C2_OtherQueuesUntouched]_vars

\* Two different transfers were enqueued on one channel, the first has been
\* popped and the second is still queued, while another channel holds a
\* transfer of its own.
C2_Witness ==
    \E ch \in ChannelIds, d \in ChannelIds :
        /\ ch # d
        /\ Len(enqueued[ch]) >= 2
        /\ enqueued[ch][1] # enqueued[ch][2]
        /\ Len(dequeued[ch]) = 1
        /\ transfer_queue[ch] # <<>>
        /\ transfer_queue[d] # <<>>

\* C19: in every state reachable from a fresh engine by initiate_transfer and
\* process_transfers calls, a channel's status is 'busy' exactly when its queue
\* holds a transfer and 'idle' exactly when its queue is empty.
C19_BusyIffQueueNonEmpty ==
    \A ch \in ChannelIds :
        /\ channel_status[ch] = "busy" <=> transfer_queue[ch] # <<>>
        /\ channel_status[ch] = "idle" <=> transfer_queue[ch] = <<>>

\* A process_transfers has just emptied the queue of one channel, which is
\* idle again, while another channel still holds a transfer and is busy.
C19_Witness ==
    /\ op = "process_transfers"
    /\ \E ch \in ChannelIds, d \in ChannelIds :
           /\ dequeued[ch] # <<>>
           /\ transfer_queue[ch] = <<>>
           /\ channel_status[ch] = "idle"
           /\ transfer_queue[d] # <<>>
           /\ channel_status[d] = "busy"

\* C20: an initiate_transfer whose channel is not one of 0..num_channels-1
\* raises ValueError and leaves every queue, every channel status and both
\* counters as they were.
C20_InvalidChannelRaisesValueError ==
    [][(op' = "initiate_transfer" /\ dma_channel' \notin ChannelIds) =>
           /\ outcome' = "ValueError"
           /\ UNCHANGED dmaObject]_vars

\* The sizes of the transfers of a list, added up.
RECURSIVE SizeSum(_)
SizeSum(list) == IF list = <<>> THEN 0 ELSE Head(list).size + SizeSum(Tail(list))

QueueLengths == [ch \in ChannelIds |-> Len(transfer_queue[ch])]

DequeuedLengths == [ch \in ChannelIds |-> Len(dequeued[ch])]

DequeuedSizes == [ch \in ChannelIds |-> SizeSum(dequeued[ch])]

\* C21: after any sequence of initiate_transfer and process_transfers calls,
\* total_transfers plus the number of entries still queued over all channels
\* is the number of accepted initiate_transfer calls, total_transfers is the
\* number of entries dequeued, and total_bytes_transferred is the sum of the
\* sizes of exactly the dequeued entries.
C21_Conservation ==
    /\ total_transfers + SumOver(ChannelIds, QueueLengths) = accepted
    /\ total_transfers = SumOver(ChannelIds, DequeuedLengths)
    /\ total_bytes_transferred = SumOver(ChannelIds, DequeuedSizes)

\* Every accepted transfer but one has been dequeued, transfers of different
\* sizes among them, and one is still queued.
C21_Witness ==
    /\ accepted = MaxInitiated
    /\ total_transfers = MaxInitiated - 1
    /\ SumOver(ChannelIds, QueueLengths) = 1
    /\ total_bytes_transferred > total_transfers

AllDrained ==
    \A ch \in ChannelIds : transfer_queue[ch] = <<>> /\ channel_status[ch] = "idle"

\* A queue that held k entries after the last accepted initiate_transfer
\* holds k - n after n further process_transfers calls, for n <= k, and is
\* empty from the k-th call on.
C22_EmptyAfterExactlyK ==
    \A ch \in ChannelIds :
        Len(transfer_queue[ch]) =
            IF drain_calls < drain_from[ch] THEN drain_from[ch] - drain_calls ELSE 0

C22_EmptyEngineUnchanged ==
    (op' = "process_transfers" /\ \A ch \in ChannelIds : transfer_queue[ch] = <<>>)
        => UNCHANGED dmaObject

\* C22: if from some point on no initiate_transfer occurs, repeated
\* process_transfers calls lead to a state, kept from then on, in which every
\* queue is empty and every channel 'idle'; a channel that holds k pending
\* entries is empty after exactly k calls and not before; and
\* process_transfers on an engine with all queues empty changes nothing.
C22_Drain ==
    /\ (<>[][op' # "initiate_transfer"]_vars) => <>[]AllDrained
    /\ []C22_EmptyAfterExactlyK
    /\ [][C22_EmptyEngineUnchanged]_vars

\* A channel that held two entries and another that held one have been
\* drained by two process_transfers calls.
C22_Witness ==
    /\ op = "process_transfers"
    /\ AllDrained
    /\ drain_calls = 2
    /\ \E ch \in ChannelIds, d \in ChannelIds : drain_from[ch] = 2 /\ drain_from[d] = 1

\* C23: on a board whose engine is driven through transfer_matrix_to_device
\* alone, after every call all queues are empty and all channels idle,
\* total_transfers is the number of calls made and total_bytes_transferred
\* the sum of the byte sizes of the matrices passed.
C23_BoardLeavesEngineDrained ==
    /\ AllDrained
    /\ total_transfers = accepted
    /\ total_bytes_transferred = SizeSum(enqueued[0])
    /\ \A ch \in ChannelIds \ {0} : enqueued[ch] = <<>>

\* Matrices of different sizes have been transferred by MaxInitiated calls.
C23_Witness ==
    /\ op = "transfer_matrix_to_device"
    /\ accepted = MaxInitiated
    /\ total_transfers = MaxInitiated
    /\ \E i, j \in 1 .. Len(enqueued[0]) : enqueued[0][i].size < enqueued[0][j].size
    /\ AllDrained

AllThreadsDone == \A t \in Threads : threads[t].pc = "done"

ThreadSizes == [t \in Threads |-> ThreadTransfer(t).size]

\* C24: for callers that run transfer_matrix_to_device on one board at the
\* same time, under every interleaving of their steps, no call raises, and
\* when all have returned each enqueued transfer has been dequeued exactly
\* once and counted once: all queues are empty, all channels idle,
\* total_transfers has grown by the number of callers and
\* total_bytes_transferred by the bytes of their matrices.
C24_ConcurrentCallersCountedOnce ==
    /\ \A t \in Threads : threads[t].pc # "raised"
    /\ AllThreadsDone =>
           /\ AllDrained
           /\ Len(dequeued[0]) = NumThreads
           /\ \A t \in Threads :
                  Cardinality({i \in 1 .. Len(dequeued[0]) :
                                   dequeued[0][i] = ThreadTransfer(t)}) = 1
           /\ total_transfers = NumThreads
           /\ total_bytes_transferred = SumOver(Threads, ThreadSizes)

(***************************************************************************)
(* Claims about partition_workload                                         *)
(***************************************************************************)
\* C3: for every integer size the call returns the row of the decision
\* table: matmul at 512 or more is (0.1, 0.9, photonic), matmul below 512 is
\* (0.8, 0.2, fpga), fft is (0.2, 0.8, photonic) and conv is (0.5, 0.5,
\* hybrid) whatever the size; 511 gives fpga_fraction 0.8 and 512 gives 0.1.
C3_DecisionTable ==
    op = "partition_workload" =>
        /\ (pw_task = "matmul" /\ pw_size[1] = "int" /\ pw_size[2] >= 512)
               => pw_result = [fpga_fraction |-> 1, photonic_fraction |-> 9,
                               recommended_unit |-> "photonic"]
        /\ (pw_task = "matmul" /\ pw_size[1] = "int" /\ pw_size[2] < 512)
               => pw_result = [fpga_fraction |-> 8, photonic_fraction |-> 2,
                               recommended_unit |-> "fpga"]
        /\ pw_task = "fft"
               => pw_result = [fpga_fraction |-> 2, photonic_fraction |-> 8,
                               recommended_unit |-> "photonic"]
        /\ pw_task = "conv"
               => pw_result = [fpga_fraction |-> 5, photonic_fraction |-> 5,
                               recommended_unit |-> "hybrid"]
        /\ (pw_task = "matmul" /\ pw_size = <<"int", 511>>)
               => pw_result.fpga_fraction = 8
        /\ (pw_task = "matmul" /\ pw_size = <<"int", 512>>)
               => pw_result.fpga_fraction = 1

\* partition_workload('matmul', 512) has returned the photonic row.
C3_Witness ==
    /\ op = "partition_workload"
    /\ pw_task = "matmul"
    /\ pw_size = <<"int", 512>>
    /\ pw_result.recommended_unit = "photonic"

\* C4: for a task type other than 'matmul', 'fft' and 'conv' the call does
\* not raise, whatever the size, and returns (1.0, 0.0, fpga).
C4_UnknownTaskDefaultRow ==
    (op = "partition_workload" /\ pw_task \notin {"matmul", "fft", "conv"}) =>
        /\ outcome = "ok"
        /\ pw_result = [fpga_fraction |-> 10, photonic_fraction |-> 0,
                        recommended_unit |-> "fpga"]

\* An unknown task type was given with a size that is not even a number, and
\* the default row came back.
C4_Witness ==
    /\ op = "partition_workload"
    /\ pw_task = "softmax"
    /\ pw_size[1] = "none"
    /\ outcome = "ok"
    /\ pw_result.fpga_fraction = 10

(***************************************************************************)
(* Claims about link_budget                                                *)
(***************************************************************************)
\* C5: the margin returned is tx_power - fiber_loss - rx_sensitivity, and
\* 'adequate' is true exactly when that margin is strictly above 3.0 dB; a
\* margin of exactly 3.0 dB is not adequate.
C5_AdequateIffMarginAbove3 ==
    op = "link_budget" =>
        /\ link_result.link_margin_db =
               link_result.tx_power_dbm - link_result.fiber_loss_db
                   - link_result.rx_sensitivity_dbm
        /\ link_result.adequate <=> (link_result.link_margin_db > 3000)
        /\ link_result.link_margin_db = 3000 => link_result.adequate = FALSE

\* A link whose margin is exactly 3.0 dB was found not adequate.
C5_Witness ==
    /\ op = "link_budget"
    /\ link_result.link_margin_db = 3000
    /\ link_result.adequate = FALSE

(***************************************************************************)
(* Claims about encode_pam4                                                *)
(***************************************************************************)
\* C6: the k-th voltage returned is level 2*b0 + b1 of {0, Vpi/3, 2Vpi/3, Vpi}
\* for the k-th pair (b0, b1) of the input, in order (voltages are held
\* times three, so level m is m * Vpi); [0,1,1,0] gives [Vpi/3, 2Vpi/3].
C6_Pam4Levels ==
    op = "encode_pam4" =>
        /\ 2 * Len(pam_out) <= Len(pam_bits)
        /\ \A k \in 1 .. Len(pam_out) :
               pam_out[k] = (2 * pam_bits[2 * k - 1] + pam_bits[2 * k]) * pam_vpi
        /\ pam_bits = <<0, 1, 1, 0>> => pam_out = <<pam_vpi, 2 * pam_vpi>>

\* [0,1,1,0] was encoded as [Vpi/3, 2Vpi/3].
C6_Witness ==
    /\ op = "encode_pam4"
    /\ pam_bits = <<0, 1, 1, 0>>
    /\ pam_out = <<pam_vpi, 2 * pam_vpi>>

\* C7: an input of n bits gives exactly floor(n/2) voltages, and for odd n
\* the same voltages as the input without its last bit.
C7_TrailingBitDropped ==
    op = "encode_pam4" =>
        /\ Len(pam_out) = Len(pam_bits) \div 2
        /\ Len(pam_bits) % 2 = 1 =>
               pam_out = encode_pam4(SubSeq(pam_bits, 1, Len(pam_bits) - 1), pam_vpi)

\* An input of odd length, ending in a 1, was encoded to (n-1)/2 voltages.
C7_Witness ==
    /\ op = "encode_pam4"
    /\ Len(pam_bits) >= 3
    /\ Len(pam_bits) % 2 = 1
    /\ pam_bits[Len(pam_bits)] = 1
    /\ 2 * Len(pam_out) = Len(pam_bits) - 1

(***************************************************************************)
(* Claims about PhotonicMatrixMultiplier.multiply                          *)
(***************************************************************************)
StagePair(k) == <<mm_stages[k].i, mm_stages[k].j>>

\* C8: a multiply that returns on a multiplier of size n has applied exactly
\* n(n-1)/2 = num_mzi stages, one for each pair (i, j) with 0 <= i < j < n and
\* none twice, in row-major order of the pairs, the k-th of them with the
\* k-th stored theta and phi: the guard idx < num_mzi skipped no pair.
C8_OneStagePerPairRowMajor ==
    (op = "multiply" /\ outcome = "ok") =>
        /\ 2 * Len(mm_stages) = mm_size * (mm_size - 1)
        /\ Len(mm_stages) = mm_num_mzi
        /\ \A k \in 1 .. Len(mm_stages) :
               /\ mm_stages[k].idx = k - 1
               /\ mm_stages[k].theta = mm_theta[k]
               /\ mm_stages[k].phi = mm_phi[k]
               /\ 0 <= mm_stages[k].i
               /\ mm_stages[k].i < mm_stages[k].j
               /\ mm_stages[k].j < mm_size
        /\ \A k \in 1 .. Len(mm_stages), l \in 1 .. Len(mm_stages) :
               k < l => \/ mm_stages[k].i < mm_stages[l].i
                        \/ /\ mm_stages[k].i = mm_stages[l].i
                           /\ mm_stages[k].j < mm_stages[l].j
        /\ {StagePair(k) : k \in 1 .. Len(mm_stages)}
               = {<<i, j>> \in (0 .. mm_size - 1) \X (0 .. mm_size - 1) : i < j}

\* A multiplier of size 4 with differing phases has run its six stages:
\* (0,3) came third and (1,2) fourth.
C8_Witness ==
    /\ op = "multiply"
    /\ outcome = "ok"
    /\ mm_size = 4
    /\ Len(mm_stages) = 6
    /\ StagePair(3) = <<0, 3>>
    /\ StagePair(4) = <<1, 2>>
    /\ mm_theta[1] # mm_theta[2]

\* C9: with theta = 0 and phi = 0 for every pair, a multiply that returns
\* returns its input vector; for size 2 and input [1+0j, 0+0j] it returns
\* [1+0j, 0+0j].
C9_ZeroPhasesIdentity ==
    (op = "multiply" /\ \A k \in 1 .. mm_num_mzi : mm_theta[k] = 0 /\ mm_phi[k] = 0) =>
        /\ outcome = "ok" => mm_out = [returns |-> mm_vector]
        /\ (mm_size = 2 /\ mm_vector = << <<1, 0>>, <<0, 0>> >>) =>
               mm_out = [returns |-> << <<1, 0>>, <<0, 0>> >>]

\* The size 2 multiplier with zero phases was applied to [1+0j, 0+0j].
C9_Witness ==
    /\ op = "multiply"
    /\ mm_size = 2
    /\ mm_theta = <<0>>
    /\ mm_phi = <<0>>
    /\ mm_vector = << <<1, 0>>, <<0, 0>> >>
    /\ mm_out = [returns |-> << <<1, 0>>, <<0, 0>> >>]

(***************************************************************************)
(* Claims about which operations write to their object                     *)
(***************************************************************************)
\* The operations that run initiate_transfer or process_transfers.
DmaOps == {"initiate_transfer", "process_transfers", "transfer_matrix_to_device"}

\* write_register and the methods that call it.
RegisterWriters == {"write_register", "configure_laser", "set_phase_shifter", "initialize"}

\* C10 as stated: the DMA engine is the one stateful component.  Apart from
\* initiate_transfer and process_transfers (and construction), no operation
\* changes a field of its object: not the engine's, not the register file's,
\* not the multiplier's.
C10_OnlyDmaEngineStateful ==
    [][/\ op' \notin DmaOps => UNCHANGED dmaObject
       /\ UNCHANGED register_values
       /\ op' # "PhotonicMatrixMultiplier" => UNCHANGED mmObject]_vars

\* C10, amended: the engine's fields change only in initiate_transfer and
\* process_transfers, the register file only in write_register and the
\* methods that call it (configure_laser, set_phase_shifter, initialize), and
\* the multiplier's fields, once constructed, only in encode_matrix.  Every
\* other operation (read_register, multiply, compute_throughput,
\* partition_workload, link_budget, encode_pam4) leaves every object as it
\* was.
C10_WritersAreDmaRegistersAndEncode ==
    [][/\ op' \notin DmaOps => UNCHANGED dmaObject
       /\ op' \notin RegisterWriters => UNCHANGED register_values
       /\ op' \notin {"PhotonicMatrixMultiplier", "encode_matrix"} => UNCHANGED mmObject]_vars

\* A read_register returns the value an earlier write_register or initialize
\* stored, on a system whose multiplier phases encode_matrix has overwritten
\* and whose engine has completed a transfer.
C10_Witness ==
    /\ op = "read_register"
    /\ mmio_result = [returns |-> InterruptsAll]
    /\ mm_theta = <<-1>>
    /\ mm_phi = <<1>>
    /\ total_transfers = 1

\* C29: multiply has no side effects: the caller's vector holds after the
\* call what it held before, theta and phi are unchanged, the array
\* returned is another array than the caller's and as long, and a multiply
\* that follows a multiply of the same vector returns the same.
C29_MultiplyHasNoSideEffects ==
    /\ [](op = "multiply" =>
              /\ mm_arrays.heap[CallerArray] = mm_vector
              /\ outcome = "ok" =>
                     /\ mm_arrays.returned # CallerArray
                     /\ mm_out = [returns |-> mm_arrays.heap[mm_arrays.returned]]
                     /\ Len(mm_out.returns) = Len(mm_vector))
    /\ [][op' = "multiply" =>
              /\ UNCHANGED mmObject
              /\ (op = "multiply" /\ mm_vector' = mm_vector) => mm_out' = mm_out]_vars

\* A multiply has returned a vector that differs from its argument, after a
\* multiply of another vector.
C29_Witness ==
    /\ op = "multiply"
    /\ outcome = "ok"
    /\ mm_size = MaxMeshSize
    /\ mm_out.returns # mm_vector
    /\ mm_arrays.heap[CallerArray] = mm_vector
    /\ mm_arrays.heap[mm_arrays.returned] # mm_vector

(***************************************************************************)
(* Claims about the registers and the board's initialization               *)
(***************************************************************************)
\* The value of the most recent write_register(name, v) that returned, or 0.
LastValue(name) == IF name \in DOMAIN last_write THEN last_write[name] ELSE 0

\* C25: read_register(name) of a register of the map returns the value of
\* the most recent write_register(name, v), or 0 if the register was never
\* written, and a write to one register leaves the value of every other
\* register as it was.
C25_ReadAfterWrite ==
    /\ [](op = "read_register" /\ mmio_args[1] \in RegisterNames =>
              mmio_result = [returns |-> LastValue(mmio_args[1])])
    /\ [][op' = "write_register" =>
              \A name \in RegisterNames \ {mmio_args'[1]} :
                  /\ name \in DOMAIN register_values'
                  /\ register_values'[name] = register_values[name]]_vars

\* A read of CONTROL has returned the second of two values written to it,
\* while LASER_POWER holds another value and STATUS was never written.
C25_Witness ==
    /\ op = "read_register"
    /\ mmio_args = <<"CONTROL">>
    /\ mmio_result = [returns |-> MaxRegisterValue]
    /\ "LASER_POWER" \in DOMAIN last_write
    /\ last_write["LASER_POWER"] \notin {0, MaxRegisterValue}
    /\ "STATUS" \notin DOMAIN last_write
    /\ register_values["STATUS"] = 0

\* C26: write_register and read_register with a name that is not one of the
\* 12 registers raise ValueError, add no entry to the register values and
\* leave every value as it was.
C26_UnknownNamesRejected ==
    /\ [](DOMAIN register_values = RegisterNames /\ Cardinality(RegisterNames) = 12)
    /\ [][op' \in {"read_register", "write_register"} /\ mmio_args'[1] \notin RegisterNames =>
              /\ mmio_result' = Raise("ValueError")
              /\ outcome' = "ValueError"
              /\ UNCHANGED register_values]_vars

\* A write to the unknown name FIRMWARE has raised on a register file that
\* holds values written before.
C26_Witness ==
    /\ op = "write_register"
    /\ mmio_args[1] = "FIRMWARE"
    /\ outcome = "ValueError"
    /\ register_values["CONTROL"] = MaxRegisterValue
    /\ register_values["LASER_POWER"] # 0

\* C27: after configure_laser(power_mw) the register LASER_POWER holds an
\* integer in 0 .. 4095, the range of a 12-bit DAC.
C27_LaserPowerIs12Bit ==
    op = "configure_laser" => register_values["LASER_POWER"] \in 0 .. 4095

\* C28: initialize writes CONTROL 0x0001 and next 0x0000, after the lasers
\* are configured and before the interrupts are enabled; when it returns
\* CONTROL = 0, INTERRUPT_ENABLE = 0xFFFF and LASER_POWER = 2047; and an
\* initialize that follows an initialize leaves the registers as they were.
C28_ResetSequence ==
    /\ [](op = "initialize" =>
              /\ outcome = "ok"
              /\ register_values["CONTROL"] = 0
              /\ register_values["INTERRUPT_ENABLE"] = 65535
              /\ register_values["LASER_POWER"] = 2047
              /\ \E i \in 2 .. Len(call_writes) - 2 :
                     /\ call_writes[i] = <<"CONTROL", 1>>
                     /\ call_writes[i + 1] = <<"CONTROL", 0>>
                     /\ \A j \in 1 .. i - 1 : call_writes[j][1] = "LASER_POWER"
                     /\ \A j \in i + 2 .. Len(call_writes) :
                            call_writes[j] = <<"INTERRUPT_ENABLE", 65535>>)
    /\ [][op = "initialize" /\ op' = "initialize" => UNCHANGED register_values]_vars

\* initialize has made its seven writes on a board whose PHASE_SHIFTER_0
\* register was set before, and has left that register alone.
C28_Witness ==
    /\ op = "initialize"
    /\ Len(call_writes) = 7
    /\ register_values["PHASE_SHIFTER_0"] # 0
    /\ register_values["CONTROL"] = 0

(***************************************************************************)
(* Claims about the TFLN devices                                           *)
(***************************************************************************)
\* C14: modulation_bandwidth never returns more than 120, whatever the
\* interaction length and the wafer cut: it returns the velocity-mismatch
\* bound or the ceiling of 120.
C14_BandwidthAtMost120 ==
    op = "modulation_bandwidth" =>
        /\ ~FLess(Limits.f_3db_loss, call_result.returns)
        /\ call_result.returns \in {Limits.f_3db_loss, f_3db_velocity(call_self)}

\* A modulator so short that its velocity-mismatch bound is above 120 has
\* returned the ceiling.
C14_Witness ==
    /\ op = "modulation_bandwidth"
    /\ FLess(FZero, call_self.interaction_length)
    /\ FLess(Limits.f_3db_loss, f_3db_velocity(call_self))
    /\ call_result.returns = Limits.f_3db_loss

\* C15: extinction_ratio never returns more than 45, whatever the
\* phase_imbalance, a phase_imbalance of 0 included.
C15_ExtinctionRatioAtMost45 ==
    op = "extinction_ratio" => ~FLess(Limits.er, call_result.returns)

\* extinction_ratio(0), where the logarithm is -inf, has returned 45.
C15_Witness ==
    /\ op = "extinction_ratio"
    /\ call_args.phase_imbalance.digit = 0
    /\ call_result.returns = Limits.er

\* The two half_wave_voltage calls that are compared, each as
\* <<interaction_length, returned voltage>>, the shorter modulator first.
C16_Calls ==
    IF FLess(call_before.self.interaction_length, call_self.interaction_length)
    THEN <<<<call_before.self.interaction_length, call_before.result.returns>>,
           <<call_self.interaction_length, call_result.returns>>>>
    ELSE <<<<call_self.interaction_length, call_result.returns>>,
           <<call_before.self.interaction_length, call_before.result.returns>>>>

\* Two modulators of positive lengths that differ in their length only have
\* been asked for their half-wave voltage with the same overlap factor.
C16_Compared ==
    /\ op = "half_wave_voltage"
    /\ call_before # NoResult
    /\ FLess(FZero, C16_Calls[1][1])

\* l2 - l1 >= l1 * 2^-49
WellSeparated(l1, l2) == ~FLess(FSub(l2, l1), [l1 EXCEPT !.e = @ - 49])

\* C16 as stated: for positive interaction lengths L1 < L2 and everything
\* else the same, half_wave_voltage at L1 is strictly greater than at L2.
C16_StrictlyDecreasing ==
    C16_Compared => FLess(C16_Calls[2][2], C16_Calls[1][2])

\* C16: for positive interaction lengths L1 < L2 and everything else the
\* same, half_wave_voltage at L1 is not below half_wave_voltage at L2, and it
\* is strictly greater when L2 >= L1 * (1 + 2^-49).
C16_NonIncreasing ==
    C16_Compared =>
        /\ ~FLess(C16_Calls[1][2], C16_Calls[2][2])
        /\ WellSeparated(C16_Calls[1][1], C16_Calls[2][1])
               => FLess(C16_Calls[2][2], C16_Calls[1][2])

\* Modulators 5.0 mm and the next float above 5.0 mm long have returned the
\* same voltage.
C16_Witness ==
    /\ C16_Compared
    /\ C16_Calls[1][1] = FInt(5)
    /\ C16_Calls[2][1] = Ulps(FInt(5), 1)
    /\ C16_Calls[1][2] = C16_Calls[2][2]

\* C17: get_pockels_coefficient returns r33 for X_CUT, r22 for Y_CUT and r13
\* for Z_CUT, and a call with a value that is none of the three cuts ends in
\* an error and returns no coefficient.
C17_UnrecognizedCutIsAnError ==
    op = "get_pockels_coefficient" =>
        /\ call_args.wafer_type = "X-cut" => call_result = [returns |-> material.r33]
        /\ call_args.wafer_type = "Y-cut" => call_result = [returns |-> material.r22]
        /\ call_args.wafer_type = "Z-cut" => call_result = [returns |-> material.r13]
        /\ call_args.wafer_type \notin WaferTypes => outcome # "ok"

\* C18: two ring modulators that differ in coupling_gap only return equal
\* tuning_efficiency, equal quality_factor and equal free_spectral_range.
C18_CouplingGapHasNoInfluence ==
    (/\ op \in {"tuning_efficiency", "quality_factor", "free_spectral_range"}
     /\ call_before # NoResult)
        => call_result = call_before.result

\* tuning_efficiency has been called on two rings with different coupling
\* gaps and has returned the same finite, non-zero value.
C18_Witness ==
    /\ op = "tuning_efficiency"
    /\ call_before # NoResult
    /\ call_self.coupling_gap # call_before.self.coupling_gap
    /\ call_result = call_before.result
    /\ call_result.returns.m # <<>>

(***************************************************************************)
(* Claims about the performance estimates                                  *)
(***************************************************************************)
\* 32 * 16 * 128, the numerator of the Gen5 x16 bandwidth over 130
C11_Numerator(self) ==
    BFromInt(PCIeGeneration[self.generation] * self.num_lanes * 128)

\* bandwidth_gbps is generation_rate * num_lanes * 128/130 up to the rounding
\* of its two float operations.
C11_Formula ==
    op = "bandwidth_gbps" =>
        WithinUlpsOfRatio(call_result.returns, C11_Numerator(call_self), 130, 2)

C11_Gen5x16 ==
    /\ op = "bandwidth_gbps"
    /\ call_self.generation = "GEN5"
    /\ call_self.num_lanes = 16

\* C11 as stated: bandwidth_gbps is generation_rate * num_lanes * 128/130 for
\* every generation and lane count, and for Gen5 x16 it is 504.49 to two
\* decimals.
C11_Gen5x16IsAbout504_49 ==
    /\ C11_Formula
    /\ C11_Gen5x16 =>
           /\ ~FLess(call_result.returns, FDec(504485, 3))
           /\ FLess(call_result.returns, FDec(504495, 3))

\* C11: bandwidth_gbps is generation_rate * num_lanes * 128/130 for every
\* generation and lane count, and for Gen5 x16 it is 504.12 to two decimals.
C11_Gen5x16IsAbout504_12 ==
    /\ C11_Formula
    /\ C11_Gen5x16 =>
           /\ ~FLess(call_result.returns, FDec(504115, 3))
           /\ FLess(call_result.returns, FDec(504125, 3))

\* bandwidth_gbps of a Gen5 x16 configuration has returned
\* 504.12307692307695, the float nearest to 65536/130.
C11_Witness ==
    /\ C11_Gen5x16
    /\ call_result.returns = FDiv(FInt(65536), FInt(130))

\* A one-node cluster and then a cluster of n nodes have been asked for
\* their aggregate performance.
C12_Compared == op = "aggregate_performance" /\ call_before # NoResult

\* C12 as stated: total_pflops and total_power_kw of an n-node cluster are
\* exactly n times those of a one-node cluster.
C12_ExactlyLinear ==
    C12_Compared =>
        /\ call_result.returns.total_pflops =
               FMul(FInt(call_self.num_nodes), call_before.result.returns.total_pflops)
        /\ call_result.returns.total_power_kw =
               FMul(FInt(call_self.num_nodes), call_before.result.returns.total_power_kw)

\* C12: total_pflops and total_power_kw of an n-node cluster are within one
\* unit in the last place of n times those of a one-node cluster, and for
\* 64 nodes they are exactly 64 times those.
C12_LinearUpToRounding ==
    C12_Compared =>
        /\ WithinUlps(call_result.returns.total_pflops,
                      FMul(FInt(call_self.num_nodes),
                           call_before.result.returns.total_pflops), 1)
        /\ WithinUlps(call_result.returns.total_power_kw,
                      FMul(FInt(call_self.num_nodes),
                           call_before.result.returns.total_power_kw), 1)
        /\ call_self.num_nodes = 64 =>
               /\ call_result.returns.total_pflops =
                      FMul(FInt(64), call_before.result.returns.total_pflops)
               /\ call_result.returns.total_power_kw =
                      FMul(FInt(64), call_before.result.returns.total_power_kw)

\* A 35-node cluster, whose total_pflops is not 35 times the one-node value,
\* has been compared with a one-node cluster.
C12_Witness ==
    /\ C12_Compared
    /\ call_self.num_nodes = 35
    /\ call_before.self.num_nodes = 1
    /\ call_result.returns.total_pflops #
           FMul(FInt(35), call_before.result.returns.total_pflops)

\* C13: the dict execute_matrix_multiply(size) returns has total_time_ms =
\* fpga_time_ms + photonic_time_ns / 1e6 + transfer_time_ms of the same dict,
\* throughput_tflops = 2 * size^3 operations over that total time (in
\* seconds, in units of 1e12), and partition = partition_workload('matmul',
\* size).
C13_TotalsOfTheSameResult ==
    (op = "execute_matrix_multiply" /\ outcome = "ok") =>
        /\ call_result.returns.total_time_ms =
               FAdd(FAdd(call_result.returns.fpga_time_ms,
                         FDiv(call_result.returns.photonic_time_ns, FInt(1000000))),
                    call_result.returns.transfer_time_ms)
        /\ call_result.returns.throughput_tflops =
               FDiv(FDiv(TotalOpsFloat(call_args.size[2]),
                         FDiv(call_result.returns.total_time_ms, FInt(1000))),
                    Unit.tera)
        /\ call_result.returns.partition =
               partition_workload("matmul", call_args.size)

\* execute_matrix_multiply(1024) has returned, with work on the photonic
\* unit and all three times positive.
C13_Witness ==
    /\ op = "execute_matrix_multiply"
    /\ outcome = "ok"
    /\ call_args.size = IntSize(1024)
    /\ call_result.returns.partition.recommended_unit = "photonic"
    /\ FLess(FZero, call_result.returns.fpga_time_ms)
    /\ FLess(FZero, call_result.returns.transfer_time_ms)
    /\ FLess(call_result.returns.transfer_time_ms, call_result.returns.total_time_ms)

(***************************************************************************)
(* Specifications                                                          *)
(***************************************************************************)
CallInit == op = "init" /\ outcome = "ok"

CallIdle ==
    /\ call_self = NoResult /\ call_args = NoResult /\ call_result = NoResult
    /\ call_before = NoResult

Init ==
    /\ CallInit /\ DMAInit /\ MMIOInit /\ PWIdle /\ LinkIdle /\ PamIdle /\ MMIdle
    /\ CallIdle /\ UploadIdle

\* ---- the DMA engine alone ----
InitiateTransfer ==
    /\ \E channel \in ChannelArgs, t \in TransferArgs :
           initiate_transfer(channel, HostAddr, DeviceAddr, t[1], t[2])
    /\ UNCHANGED <<mmioVars, pwVars, linkVars, pamVars, mmVars, callVars, upVars>>

ProcessTransfers ==
    /\ process_transfers
    /\ UNCHANGED <<mmioVars, pwVars, linkVars, pamVars, mmVars, callVars, upVars>>

NextDMA == InitiateTransfer \/ ProcessTransfers

SpecDMA == Init /\ [][NextDMA]_vars

\* The engine with a caller that keeps calling process_transfers.
SpecDrain == Init /\ [][NextDMA]_vars /\ WF_vars(ProcessTransfers)

\* ---- a board whose engine is driven through transfer_matrix_to_device ----
TransferMatrix ==
    /\ \E size_bytes \in MatrixBytes : transfer_matrix_to_device(size_bytes)
    /\ UNCHANGED <<mmioVars, pwVars, linkVars, pamVars, mmVars, callVars, upVars>>

BoardInitialize ==
    /\ initialize
    /\ UNCHANGED <<dmaVars, pwVars, linkVars, pamVars, mmVars, callVars, upVars>>

NextBoard == TransferMatrix \/ BoardInitialize

SpecBoard == Init /\ [][NextBoard]_vars

\* ---- the uploader ----
UploadOthers ==
    UNCHANGED <<dmaVars, mmioVars, pwVars, linkVars, pamVars, mmVars, callVars>>

UploadFile == UploadOthers /\ \E file \in 1 .. MaxFiles : upload_file(file)

GetAnswered == UploadOthers /\ \E answer \in GetAnswers : get_answered(answer)

PutAnswered == UploadOthers /\ \E answer \in PutAnswers : put_answered(answer)

NextUpload == UploadFile \/ GetAnswered \/ PutAnswered

SpecUpload == Init /\ [][NextUpload]_vars

\* ---- the registers alone ----
\* "FIRMWARE" is not a key of self.registers.
NameArgs == {"CONTROL", "LASER_POWER", "STATUS", "FIRMWARE"}

ValueArgs == 1 .. MaxRegisterValue

\* power_mw below 0, within 0 .. 100 and above 100
LaserPowers == {InitLaserPower * k : k \in -1 .. MaxPowerSteps}

MmioOthers == UNCHANGED <<dmaVars, pwVars, linkVars, pamVars, mmVars, callVars, upVars>>

WriteRegister ==
    /\ \E name \in NameArgs, value \in ValueArgs : write_register(name, value)
    /\ MmioOthers

ReadRegister ==
    /\ \E name \in NameArgs : read_register(name)
    /\ MmioOthers

ConfigureLaser ==
    /\ \E power_mw \in LaserPowers : configure_laser(power_mw)
    /\ MmioOthers

SetPhaseShifter ==
    /\ \E index \in 0 .. 2 : set_phase_shifter(index, 1)
    /\ MmioOthers

NextMmio ==
    WriteRegister \/ ReadRegister \/ ConfigureLaser \/ SetPhaseShifter \/ BoardInitialize

SpecMmio == Init /\ [][NextMmio]_vars

\* ---- callers that share the board, one statement at a time ----
RaceQuiet == UNCHANGED <<mmioVars, pwVars, linkVars, pamVars, mmVars, callVars, upVars>>

RaceAppend == RaceQuiet /\ \E t \in Threads : ThreadAppend(t)

RaceSetBusy == RaceQuiet /\ \E t \in Threads : ThreadSetBusy(t)

RaceTestQueue == RaceQuiet /\ \E t \in Threads : ThreadTestQueue(t)

RacePop == RaceQuiet /\ \E t \in Threads : ThreadPop(t)

RaceReadBytes == RaceQuiet /\ \E t \in Threads : ThreadReadBytes(t)

RaceWriteBytes == RaceQuiet /\ \E t \in Threads : ThreadWriteBytes(t)

RaceReadTransfers == RaceQuiet /\ \E t \in Threads : ThreadReadTransfers(t)

RaceWriteTransfers == RaceQuiet /\ \E t \in Threads : ThreadWriteTransfers(t)

RaceTestEmpty == RaceQuiet /\ \E t \in Threads : ThreadTestEmpty(t)

RaceSetIdle == RaceQuiet /\ \E t \in Threads : ThreadSetIdle(t)

NextRace ==
    \/ RaceAppend \/ RaceSetBusy \/ RaceTestQueue \/ RacePop
    \/ RaceReadBytes \/ RaceWriteBytes \/ RaceReadTransfers \/ RaceWriteTransfers
    \/ RaceTestEmpty \/ RaceSetIdle

SpecRace == Init /\ [][NextRace]_vars

\* ---- partition_workload alone ----
NextPartition == PartitionWorkload /\ UNCHANGED <<dmaVars, mmioVars, linkVars, pamVars, mmVars, callVars, upVars>>

SpecPartition == Init /\ [][NextPartition]_vars

\* ---- link_budget alone ----
NextLink == LinkBudget /\ UNCHANGED <<dmaVars, mmioVars, pwVars, pamVars, mmVars, callVars, upVars>>

SpecLink == Init /\ [][NextLink]_vars

\* ---- encode_pam4 alone ----
NextPam4 == EncodePam4 /\ UNCHANGED <<dmaVars, mmioVars, pwVars, linkVars, mmVars, callVars, upVars>>

SpecPam4 == Init /\ [][NextPam4]_vars

\* ---- the matrix multiplier alone ----
\* The constructor runs once, before any method of the object.
NewMultiplier ==
    /\ op = "init"
    /\ \E size \in 0 .. MaxMeshSize :
           \E theta \in ThetaArrays(NumMzi(size)), phi \in PhiArrays(NumMzi(size)) :
               mm_construct(size, theta, phi)
    /\ UNCHANGED <<dmaVars, mmioVars, pwVars, linkVars, pamVars, callVars, upVars>>

EncodeMatrix ==
    /\ \E matrix \in MatrixArgs(mm_size) : encode_matrix(matrix)
    /\ UNCHANGED <<dmaVars, mmioVars, pwVars, linkVars, pamVars, callVars, upVars>>

Multiply ==
    /\ \E vector \in VectorArgs(mm_size) : multiply(vector)
    /\ UNCHANGED <<dmaVars, mmioVars, pwVars, linkVars, pamVars, callVars, upVars>>

NextMesh == NewMultiplier \/ EncodeMatrix \/ Multiply

SpecMesh == Init /\ [][NextMesh]_vars

\* ---- the methods of the modulators and their material ----
programVars == <<dmaVars, mmioVars, pwVars, linkVars, pamVars, mmVars, upVars>>

NextModulator ==
    /\ GetPockelsCoefficient \/ HalfWaveVoltage \/ ModulationBandwidth
           \/ ExtinctionRatio \/ QualityFactor \/ FreeSpectralRange
           \/ TuningEfficiency
    /\ UNCHANGED programVars

SpecModulator == Init /\ [][NextModulator]_vars

\* ---- the performance estimates ----
NextPcie == BandwidthGbps /\ UNCHANGED programVars

SpecPcie == Init /\ [][NextPcie]_vars

NextHybrid == ExecuteMatrixMultiply /\ UNCHANGED programVars

SpecHybrid == Init /\ [][NextHybrid]_vars

NextCluster == AggregatePerformance /\ UNCHANGED programVars

SpecCluster == Init /\ [][NextCluster]_vars

\* ---- the stateful objects side by side, with the pure calls ----
\* A step of one object leaves the other objects' fields as they are and
\* blanks the record of their last call.
DmaQuiet == UNCHANGED dmaVars

MmioKept == UNCHANGED <<register_values, last_write>>

MmioClear == mmio_result' = NoResult /\ mmio_args' = <<>> /\ call_writes' = <<>>

MmioQuiet == MmioKept /\ MmioClear

MeshQuiet == UNCHANGED mmObject /\ MMClearCall

PureQuiet ==
    /\ pw_task' = "" /\ pw_size' = NoneSize /\ pw_result' = NoResult
    /\ link_reach' = 0 /\ link_result' = NoResult
    /\ pam_vpi' = 1 /\ pam_bits' = <<>> /\ pam_out' = <<>>

SysInitiateTransfer ==
    /\ accepted < SysMaxInitiated
    /\ \E channel \in {0, NumChannels} :
           initiate_transfer(channel, HostAddr, DeviceAddr, 1, "h2d")
    /\ MmioQuiet /\ MeshQuiet /\ PureQuiet
    /\ UNCHANGED <<callVars, upVars>>

SysProcessTransfers ==
    /\ process_transfers
    /\ MmioQuiet /\ MeshQuiet /\ PureQuiet
    /\ UNCHANGED <<callVars, upVars>>

SysTransferMatrix ==
    /\ accepted < SysMaxInitiated
    /\ transfer_matrix_to_device(MaxTransferSize)
    /\ MmioQuiet /\ MeshQuiet /\ PureQuiet
    /\ UNCHANGED <<callVars, upVars>>

SysWriteRegister ==
    /\ \E name \in {"INTERRUPT_ENABLE", "FIRMWARE"} : write_register(name, InterruptsAll)
    /\ DmaQuiet /\ MeshQuiet /\ PureQuiet
    /\ UNCHANGED <<callVars, upVars>>

SysReadRegister ==
    /\ \E name \in {"INTERRUPT_ENABLE", "LASER_POWER", "FIRMWARE"} : read_register(name)
    /\ DmaQuiet /\ MeshQuiet /\ PureQuiet
    /\ UNCHANGED <<callVars, upVars>>

SysConfigureLaser ==
    /\ configure_laser(InitLaserPower)
    /\ DmaQuiet /\ MeshQuiet /\ PureQuiet
    /\ UNCHANGED <<callVars, upVars>>

SysSetPhaseShifter ==
    /\ \E index \in {0, 2} : set_phase_shifter(index, 1)
    /\ DmaQuiet /\ MeshQuiet /\ PureQuiet
    /\ UNCHANGED <<callVars, upVars>>

SysInitialize ==
    /\ initialize
    /\ DmaQuiet /\ MeshQuiet /\ PureQuiet
    /\ UNCHANGED <<callVars, upVars>>

SysNewMultiplier ==
    /\ mm_size = 0
    /\ mm_construct(2, <<1>>, <<0>>)
    /\ MmioClear
    /\ DmaQuiet /\ MmioKept /\ PureQuiet
    /\ UNCHANGED <<callVars, upVars>>

SysEncodeMatrix ==
    /\ encode_matrix(MatrixOf(mm_size, 1, 3, 0))
    /\ MmioClear
    /\ DmaQuiet /\ MmioKept /\ PureQuiet
    /\ UNCHANGED <<callVars, upVars>>

SysMultiply ==
    /\ multiply([k \in 1 .. mm_size |-> <<1, 0>>])
    /\ MmioClear
    /\ DmaQuiet /\ MmioKept /\ PureQuiet
    /\ UNCHANGED <<callVars, upVars>>

SysComputeThroughput ==
    /\ op' = "compute_throughput"
    /\ outcome' = "ok"
    /\ mm_vector' = <<>>
    /\ mm_stages' = <<>>
    /\ mm_arrays' = NoResult
    /\ mm_out' = [returns |-> compute_throughput]
    /\ UNCHANGED mmObject
    /\ MmioClear
    /\ DmaQuiet /\ MmioKept /\ PureQuiet
    /\ UNCHANGED <<callVars, upVars>>

SysPartitionWorkload ==
    /\ \E task_type \in TaskTypes :
           \E r \in {partition_workload(task_type, IntSize(SizeThreshold))} :
               /\ op' = "partition_workload"
               /\ pw_task' = task_type
               /\ pw_size' = IntSize(SizeThreshold)
               /\ pw_result' = r
               /\ outcome' = OutcomeOf(r)
    /\ link_reach' = 0 /\ link_result' = NoResult
    /\ pam_vpi' = 1 /\ pam_bits' = <<>> /\ pam_out' = <<>>
    /\ DmaQuiet /\ MmioQuiet /\ MeshQuiet
    /\ UNCHANGED <<callVars, upVars>>

SysLinkBudget ==
    /\ \E reach \in {500, 2000} :
           /\ op' = "link_budget"
           /\ outcome' = "ok"
           /\ link_reach' = reach
           /\ link_result' = link_budget(reach)
    /\ pw_task' = "" /\ pw_size' = NoneSize /\ pw_result' = NoResult
    /\ pam_vpi' = 1 /\ pam_bits' = <<>> /\ pam_out' = <<>>
    /\ DmaQuiet /\ MmioQuiet /\ MeshQuiet
    /\ UNCHANGED <<callVars, upVars>>

SysEncodePam4 ==
    /\ \E bits \in BitArrays(2) :
           /\ op' = "encode_pam4"
           /\ outcome' = "ok"
           /\ pam_vpi' = 1
           /\ pam_bits' = bits
           /\ pam_out' = encode_pam4(bits, 1)
    /\ pw_task' = "" /\ pw_size' = NoneSize /\ pw_result' = NoResult
    /\ link_reach' = 0 /\ link_result' = NoResult
    /\ DmaQuiet /\ MmioQuiet /\ MeshQuiet
    /\ UNCHANGED <<callVars, upVars>>

NextSys ==
    \/ SysInitiateTransfer \/ SysProcessTransfers \/ SysTransferMatrix
    \/ SysWriteRegister \/ SysReadRegister \/ SysConfigureLaser
    \/ SysSetPhaseShifter \/ SysInitialize
    \/ SysNewMultiplier \/ SysEncodeMatrix \/ SysMultiply \/ SysComputeThroughput
    \/ SysPartitionWorkload \/ SysLinkBudget \/ SysEncodePam4

SpecSys == Init /\ [][NextSys]_vars

(***************************************************************************)
(* Claims about upload_file                                                *)
(***************************************************************************)
\* The answer to the GET of the call, once it has arrived or failed.
GetAnswerOf(log) == log[2].data

\* The answer is a 200 whose body is an object with a sha that is a
\* non-empty string.
AnsweredWithSha(answer) ==
    /\ answer.arrived
    /\ answer.status = 200
    /\ answer.body.kind = "object"
    /\ "sha" \in DOMAIN answer.body.dict
    /\ answer.body.dict.sha[1] = "str"
    /\ answer.body.dict.sha[2] # ""

PutSent == \E k \in 1 .. Len(up_log) : up_log[k].event = "PUT"

\* C30: if the GET fails with an HTTP error other than 404, upload_file
\* returns False and sends no PUT; the payload of the PUT carries a sha
\* exactly when the GET answered 200 with a sha, and it is that sha, and
\* carries none after a 404; and upload_file returns True only if it sent a
\* PUT that was answered with status 200 or 201.
C30_UploadProtocol ==
    /\ (Len(up_log) >= 2 /\ GetAnswerOf(up_log).arrived
            /\ GetAnswerOf(up_log).status \notin 200 .. 299
            /\ GetAnswerOf(up_log).status # 404) =>
           /\ up_call.pc = "idle"
           /\ up_call.result = [returns |-> FALSE]
           /\ ~PutSent
    /\ \A k \in 1 .. Len(up_log) :
           up_log[k].event = "PUT" =>
               /\ "sha" \in DOMAIN up_log[k].data <=> AnsweredWithSha(GetAnswerOf(up_log))
               /\ "sha" \in DOMAIN up_log[k].data =>
                      up_log[k].data.sha = GetAnswerOf(up_log).body.dict.sha
               /\ GetAnswerOf(up_log).status = 404 => "sha" \notin DOMAIN up_log[k].data
    /\ up_call.result = [returns |-> TRUE] =>
           /\ Len(up_log) = 4
           /\ up_log[3].event = "PUT"
           /\ up_log[4].event = "PUT answer"
           /\ up_log[4].data.arrived
           /\ up_log[4].data.status \in {200, 201}

\* An update has succeeded: the GET answered 200 with a sha, the PUT carried
\* it and was answered 200, and upload_file returned True.
C30_Witness ==
    /\ up_call.pc = "idle"
    /\ up_call.result = [returns |-> TRUE]
    /\ AnsweredWithSha(GetAnswerOf(up_log))
    /\ up_log[3].data.sha = PyStr("b2")
    /\ up_log[4].data.status = 200



=============================================================================
